---- MODULE Spec2Model ----
(***************************************************************************)
(* A model of dns-as-doh: the payload codec (internal/dns encode), the DNS *)
(* wire codec (internal/dns message), the AEAD envelope and replay cache   *)
(* (internal/crypto), the rate limiter (internal/server/security.go) and   *)
(* the client/server tunnel exchange.                                      *)
(*                                                                         *)
(* Each component has its own specification (SpecCodec, SpecWire, ...):    *)
(* the variables of the other components stay at their idle value.         *)
(* Bytes are integers 0..255, byte strings are sequences of bytes, a DNS   *)
(* name is a sequence of labels, each a sequence of bytes.                 *)
(***************************************************************************)
EXTENDS Integers, Sequences, FiniteSets, TLC

VARIABLES
    \* ---- payload codec (EncodePayload / DecodePayload)
    cStage,      \* "off" | "input" | "encoded" | "decoded"
    cIn,         \* the inputs: payload, clientID, domain, the random draws
    cName,       \* EncodePayload's result: [err, name]
    cOut,        \* DecodePayload's result: [err, clientID, payload]
    \* ---- DNS wire codec (Message.Marshal / ParseMessage)
    wStage,      \* "off" | "input" | "marshalled" | "parsed"
    wMsg,        \* the Message handed to Marshal
    wBytes,      \* Marshal's result: [err, data]
    wParsed,     \* ParseMessage's result: [err, msg]
    \* ---- the clock (time.Now), in ticks of 1/TicksPerSecond second
    now,
    \* ---- AEAD envelope (Cipher)
    kCounter,    \* Cipher.counter of the sealing cipher
    kEnv,        \* the envelope last sealed, <<>> before the first
    kOpen,       \* the result of the open in progress, <<>> when none
    kTask,       \* concurrent seal calls: task -> [pc, ctr]
    kIssued,     \* the counter values handed out, in the order of the atomic adds
    kNonces,     \* the nonces of the envelopes the concurrent calls sealed
    \* ---- replay cache (ReplayDetector)
    rSeen,       \* ReplayDetector.seen: nonce -> time inserted, -1 when absent
    rTask,       \* concurrent Check calls: task -> [pc, nonce, result, ...]
    rSwept,      \* the time of the cleanup ticker's last tick
    rIns,        \* history: nonce -> time of its last insert ever, -1 when none
    rCalled,     \* history: the nonces Check was ever called with
    \* ---- rate limiter (RateLimiter)
    lLimit,      \* RateLimiter.limit
    lCounters,   \* RateLimiter.counters: ip -> [ok, count, windowStart]
    lCleaned,    \* the time of the cleanup ticker's last tick
    lRecent,     \* history: ip -> the times of the calls admitted in the last second
    lLast,       \* history: the last Allow call, [ip, at, res], <<>> before the first
    \* ---- tunnel (client resolver, network, server handler)
    tApp,        \* exchange -> [stage, query, nonce, reply, ok, from]
    tNet,        \* datagrams on their way to the server: [sock, data, copies]
    tBack,       \* datagrams on their way to a client socket: [sock, data, log]
    tLog,        \* history: the envelopes the server opened
    tDups,       \* history: the number of datagrams the network has duplicated
    tSecret,     \* Config.SharedSecret of each side: [client, server]
    \* ---- parallel transport (one call of Transport.Query)
    qTask,       \* resolver -> [pc, ok, data]: the goroutine querying it
    qAnswer,     \* resolver -> the datagrams it sent to this query's socket
    qDeadline,   \* TRUE once the deadline of the call has passed
    qCtx,        \* "live" | "done": the call's context
    qResults,    \* the results channel: a sequence of [resolver, ok, data]
    qStats,      \* Transport.stats: resolver -> [Queries, Successes, Failures]
    qRet,        \* what Query returned: [err, data], <<>> while it runs
    \* ---- listener (client Resolver / server Handler): accept loop, workers, Stop
    pRole,       \* "client" | "server"
    pCtx,        \* "live" | "done": the root context
    pConn,       \* "open" | "closed": the listening socket
    pLoop,       \* acceptLoop's position: "check" | "read" | "acquire" | "spawn" | "done"
    pRead,       \* the number of datagrams acceptLoop has read
    pSem,        \* len(sem): the slots taken
    pWg,         \* the WaitGroup's counter
    pWork,       \* worker -> "idle" | "handle" | "release" | "exit" | "done"
    pStop,       \* Stop's position: "no" | "cancelled" | "closed" | "returned"
    pAtClose,    \* history: the workers still running when the socket was closed
    \* ---- TXT character-strings (EncodeTXTData / DecodeTXTData)
    xStage,      \* "off" | "input" | "encoded" | "decoded"
    xData,       \* the byte string handed to EncodeTXTData
    xEnc,        \* the RDATA handed to DecodeTXTData
    xDec,        \* DecodeTXTData's result: [err, data]
    \* ---- readName, one loop iteration at a time
    nStage,      \* "off" | "reading" | "returned" | "parsed"
    nIn,         \* the shape of the buffer: [kind, k, lab]
    nPos,        \* the reader's offset
    nLabels,     \* labels
    nPtrs,       \* numPointers
    nSeek,       \* seekTo
    nRet,        \* readName's result: [err, name, pos]
    nParsed,     \* ParseMessage's result on the same buffer: [err, msg]
    \* ---- DoT upstream (Resolver.resolveDoT, connPool) under the server handler
    dPc,         \* worker -> its position in resolveDoT
    dHeld,       \* worker -> the connection it holds (or held when its I/O
                 \* failed), 0 when none
    dConn,       \* connection -> "none" | "open" | "closed"
    dPool,       \* connPool.conns
    dMu,         \* connPool.mu: 0 when free, the worker holding it, -1 for Stop
    dFailed,     \* history: the connections on which a write or read failed
    dLate,       \* history: the connections put into the pool after close
    \* ---- a rate limiter whose cleanup goroutine never runs, called in step
    vCounters,   \* its counters: ip -> [ok, count, windowStart]
    vLast,       \* what its last Allow call returned, <<>> before the first
    \* ---- the listeners, one inbound datagram at a time
    yLast        \* the last datagram handled: [side, data, allowed, before,
                 \* after, writes], <<>> before the first

codecVars == <<cStage, cIn, cName, cOut>>

wireVars == <<wStage, wMsg, wBytes, wParsed>>

cipherVars == <<kCounter, kEnv, kOpen, kTask, kIssued, kNonces>>

replayVars == <<rSeen, rTask, rSwept, rIns, rCalled>>

rateVars == <<lLimit, lCounters, lCleaned, lRecent, lLast>>

tunnelVars == <<tApp, tNet, tBack, tLog, tDups, tSecret>>

queryVars == <<qTask, qAnswer, qDeadline, qCtx, qResults, qStats, qRet>>

\* the components added after the tunnel
poolVars == <<pRole, pCtx, pConn, pLoop, pRead, pSem, pWg, pWork, pStop, pAtClose>>

txtVars == <<xStage, xData, xEnc, xDec>>

\* the components added after the listener
nameVars == <<nStage, nIn, nPos, nLabels, nPtrs, nSeek, nRet, nParsed>>

dotVars == <<dPc, dHeld, dConn, dPool, dMu, dFailed, dLate>>

lastVars == <<vCounters, vLast, yLast>>

lateVars == <<txtVars, nameVars, dotVars, lastVars>>

extraVars == <<queryVars, poolVars, lateVars>>

vars == <<cStage, cIn, cName, cOut, wStage, wMsg, wBytes, wParsed, now,
          kCounter, kEnv, kOpen, kTask, kIssued, kNonces,
          rSeen, rTask, rSwept, rIns, rCalled,
          lLimit, lCounters, lCleaned, lRecent, lLast,
          tApp, tNet, tBack, tLog, tDups, tSecret,
          qTask, qAnswer, qDeadline, qCtx, qResults, qStats, qRet,
          pRole, pCtx, pConn, pLoop, pRead, pSem, pWg, pWork, pStop, pAtClose,
          xStage, xData, xEnc, xDec,
          nStage, nIn, nPos, nLabels, nPtrs, nSeek, nRet, nParsed,
          dPc, dHeld, dConn, dPool, dMu, dFailed, dLate,
          vCounters, vLast, yLast>>

(***************************************************************************)
(* The idle value of each component's variables (the component is not part *)
(* of the specification being checked).                                    *)
(***************************************************************************)
CodecIdle ==
    /\ cStage = "off"
    /\ cIn = <<>>
    /\ cName = <<>>
    /\ cOut = <<>>

WireIdle ==
    /\ wStage = "off"
    /\ wMsg = <<>>
    /\ wBytes = <<>>
    /\ wParsed = <<>>

ClockIdle == now = 0

Roles == {"client", "server"}

CipherIdle ==
    /\ kCounter = [r \in Roles |-> 0]
    /\ kEnv = <<>>
    /\ kOpen = <<>>
    /\ kTask = <<>>
    /\ kIssued = <<>>
    /\ kNonces = <<>>

ReplayIdle ==
    /\ rSeen = <<>>
    /\ rTask = <<>>
    /\ rSwept = 0
    /\ rIns = <<>>
    /\ rCalled = {}

RateIdle ==
    /\ lLimit = 0
    /\ lCounters = <<>>
    /\ lCleaned = 0
    /\ lRecent = <<>>
    /\ lLast = <<>>

TunnelIdle ==
    /\ tApp = <<>>
    /\ tNet = {}
    /\ tBack = {}
    /\ tLog = {}
    /\ tDups = 0
    /\ tSecret = <<>>

QueryIdle ==
    /\ qTask = <<>>
    /\ qAnswer = <<>>
    /\ qDeadline = FALSE
    /\ qCtx = "live"
    /\ qResults = <<>>
    /\ qStats = <<>>
    /\ qRet = <<>>

PoolIdle ==
    /\ pRole = ""
    /\ pCtx = "live"
    /\ pConn = "open"
    /\ pLoop = "done"
    /\ pRead = 0
    /\ pSem = 0
    /\ pWg = 0
    /\ pWork = <<>>
    /\ pStop = "no"
    /\ pAtClose = {}

TxtIdle ==
    /\ xStage = "off"
    /\ xData = <<>>
    /\ xEnc = <<>>
    /\ xDec = <<>>

NameIdle ==
    /\ nStage = "off"
    /\ nIn = <<>>
    /\ nPos = 0
    /\ nLabels = <<>>
    /\ nPtrs = 0
    /\ nSeek = -1
    /\ nRet = <<>>
    /\ nParsed = <<>>

DotIdle ==
    /\ dPc = <<>>
    /\ dHeld = <<>>
    /\ dConn = <<>>
    /\ dPool = <<>>
    /\ dMu = 0
    /\ dFailed = {}
    /\ dLate = {}

LastIdle ==
    /\ vCounters = <<>>
    /\ vLast = <<>>
    /\ yLast = <<>>

LateIdle == TxtIdle /\ NameIdle /\ DotIdle /\ LastIdle

ExtraIdle == QueryIdle /\ PoolIdle /\ LateIdle

(***************************************************************************)
(* Helpers on sequences and integers.                                      *)
(***************************************************************************)
\* the value of a function of one point: Only([x \in {e} |-> body]) is body
\* with x standing for the value of e, worked out once as a local variable is
Only(f) == CHOOSE r \in UNION {{g[x] : x \in DOMAIN g} : g \in {f}} : TRUE

Min(a, b) == IF a < b THEN a ELSE b

Pow2(n) == 2 ^ n

\* s[from..to] (1-based, inclusive), empty when from > to
Slice(s, from, to) == [i \in 1..(to - from + 1) |-> s[from + i - 1]]

\* n copies of byte b
Fill(b, n) == [i \in 1..n |-> b]

\* the concatenation of a sequence of byte strings (bytes.Join(labels, nil))
RECURSIVE Join(_)
Join(ss) == IF ss = <<>> THEN <<>> ELSE Head(ss) \o Join(Tail(ss))

\* sum over the labels of len(label)+1
RECURSIVE LabelsWire(_)
LabelsWire(n) == IF n = <<>> THEN 0 ELSE Len(Head(n)) + 1 + LabelsWire(Tail(n))

\* the wire length of a name: sum of len(label)+1, plus the terminator
NameWireLen(n) == LabelsWire(n) + 1

(***************************************************************************)
(* Constants of the payload codec.                                         *)
(***************************************************************************)
ClientIDSize == 8
MinPadding == 3
MaxPadding == 8
MinPaddingPoll == 8
PaddingPrefixBase == 224
MaxLabelLength == 63
MaxNameLength == 255

(***************************************************************************)
(* ASCII case: EncodePayload lowercases, DecodePayload uppercases,         *)
(* TrimSuffix compares with bytes.EqualFold.                               *)
(***************************************************************************)
ToLowerByte(b) == IF b >= 65 /\ b <= 90 THEN b + 32 ELSE b

ToUpperByte(b) == IF b >= 97 /\ b <= 122 THEN b - 32 ELSE b

ToUpper(s) == [i \in 1..Len(s) |-> ToUpperByte(s[i])]

ToLower(s) == [i \in 1..Len(s) |-> ToLowerByte(s[i])]

\* label equality that tells the cases apart
EqualFoldExact(a, b) == a = b

EqualFold(a, b) ==
    /\ Len(a) = Len(b)
    /\ \A i \in 1..Len(a) : ToLowerByte(a[i]) = ToLowerByte(b[i])

(***************************************************************************)
(* base32 (RFC 4648 alphabet, no padding), as encoding/base32 computes it. *)
(***************************************************************************)
\* the alphabet: values 0..25 are 'A'..'Z', 26..31 are '2'..'7'
B32Char(v) == IF v < 26 THEN 65 + v ELSE 50 + (v - 26)

\* decodeMap: the value of a character, 255 for a character outside the alphabet
B32Value(c) ==
    IF c >= 65 /\ c <= 90 THEN c - 65
    ELSE IF c >= 50 /\ c <= 55 THEN c - 50 + 26
    ELSE 255

\* EncodedLen without padding: ceil(8n/5)
B32EncodedLen(n) == (n * 8 + 4) \div 5

\* character j (0-based) holds bits 5j..5j+4 of the input, zero-filled at the end
B32Encode(raw) ==
    [k \in 1..B32EncodedLen(Len(raw)) |->
        LET j == k - 1
            bi == (5 * j) \div 8
            b0 == raw[bi + 1]
            b1 == IF bi + 2 <= Len(raw) THEN raw[bi + 2] ELSE 0
            w == b0 * 256 + b1
            shift == 11 - ((5 * j) % 8)
        IN  B32Char((w \div Pow2(shift)) % 32)]

\* bytes a trailing quantum of dlen characters yields (the decoder's switch on
\* dlen has cases 8, 7, 5, 4, 2 only: any other length yields nothing)
B32TailBytes(dlen) ==
    CASE dlen = 7 -> 4
      [] dlen = 5 -> 3
      [] dlen = 4 -> 2
      [] dlen = 2 -> 1
      [] OTHER -> 0

B32DecodedBytes(n) == ((n \div 8) * 5) + B32TailBytes(n % 8)

\* Decode: [err, data]; a character outside the alphabet is a CorruptInputError
B32Decode(enc) ==
    IF \E i \in 1..Len(enc) : B32Value(enc[i]) = 255
    THEN [err |-> "base32", data |-> <<>>]
    ELSE [err |-> "",
          data |-> [k \in 1..B32DecodedBytes(Len(enc)) |->
              LET i == k - 1
                  c0 == (8 * i) \div 5
                  v(x) == IF x + 1 <= Len(enc) THEN B32Value(enc[x + 1]) ELSE 0
                  w == v(c0) * 1024 + v(c0 + 1) * 32 + v(c0 + 2)
                  shift == 7 - ((8 * i) % 5)
              IN  (w \div Pow2(shift)) % 256]]

(***************************************************************************)
(* DNSNameCapacity, splitLabels, EncodePayload.                            *)
(***************************************************************************)
\* a capacity that leaves out the length byte each label costs
DNSNameCapacityNoLabelOverhead(domain) ==
    ((255 - 1 - LabelsWire(domain)) * 5) \div 8

DNSNameCapacity(domain) ==
    ((((255 - 1 - LabelsWire(domain)) * 63) \div 64) * 5) \div 8

\* chunks of at most maxLen bytes, in order
splitLabels(data, maxLen) ==
    [k \in 1..((Len(data) + maxLen - 1) \div maxLen) |->
        Slice(data, (k - 1) * maxLen + 1, Min(k * maxLen, Len(data)))]

\* a padding length that starts from MinPaddingPoll whatever the payload
PaddingLenPollAlways(payload, randByte) ==
    MinPaddingPoll + (randByte % (MaxPadding - MinPadding + 1))

\* paddingLen from the random byte drawn: MinPadding (MinPaddingPoll for an
\* empty payload) plus randByte mod (MaxPadding - MinPadding + 1)
PaddingLen(payload, randByte) ==
    (IF Len(payload) = 0 THEN MinPaddingPoll ELSE MinPadding)
        + (randByte % (MaxPadding - MinPadding + 1))

\* a data frame written without its length byte
DataFrameNoLength(payload) == payload

\* the data frame: the length byte, then the payload (nothing for a poll)
DataFrame(payload) ==
    IF Len(payload) > 0 THEN <<Len(payload) % 256>> \o payload ELSE <<>>

\* the raw frame buffer: ClientID, padding header, padding, data frame
RawFrames(payload, clientID, padding) ==
    clientID \o <<(PaddingPrefixBase + Len(padding)) % 256>> \o padding
        \o DataFrame(payload)

\* EncodePayload(payload, clientID, domain), with the random byte and the
\* random padding bytes it draws as inputs: [err, name]
EncodePayload(payload, clientID, domain, randByte, padFill) ==
    LET paddingLen == PaddingLen(payload, randByte)
        raw == RawFrames(payload, clientID, Fill(padFill, paddingLen))
    IN  IF Len(payload) >= PaddingPrefixBase
        THEN [err |-> "ErrPayloadTooLong", name |-> <<>>]
        ELSE IF Len(raw) > DNSNameCapacity(domain)
        THEN [err |-> "ErrPayloadTooLong", name |-> <<>>]
        ELSE [err |-> "",
              name |-> splitLabels(ToLower(B32Encode(raw)), MaxLabelLength) \o domain]

(***************************************************************************)
(* Name.TrimSuffix and DecodePayload.                                      *)
(***************************************************************************)
\* [ok, fore]: the labels before the suffix when the name ends in it
TrimSuffix(n, suffix) ==
    IF Len(n) < Len(suffix)
    THEN [ok |-> FALSE, fore |-> <<>>]
    ELSE LET split == Len(n) - Len(suffix)
         IN  IF \A i \in 1..Len(suffix) : EqualFold(n[split + i], suffix[i])
             THEN [ok |-> TRUE, fore |-> Slice(n, 1, split)]
             ELSE [ok |-> FALSE, fore |-> <<>>]

\* the frame loop of DecodePayload over the bytes after the ClientID:
\* [err, payload]; a frame that runs past the end is an error
RECURSIVE ReadFrames(_, _)
ReadFrames(data, acc) ==
    IF data = <<>> THEN [err |-> "", payload |-> acc]
    ELSE LET prefix == Head(data)
             rest == Tail(data)
         IN  IF prefix >= PaddingPrefixBase
             THEN LET paddingLen == prefix - PaddingPrefixBase
                  IN  IF Len(rest) < paddingLen
                      THEN [err |-> "EOF", payload |-> <<>>]
                      ELSE ReadFrames(Slice(rest, paddingLen + 1, Len(rest)), acc)
             ELSE IF Len(rest) < prefix
                  THEN [err |-> "EOF", payload |-> <<>>]
                  ELSE ReadFrames(Slice(rest, prefix + 1, Len(rest)),
                                  acc \o Slice(rest, 1, prefix))

\* a decoder that takes everything after the ClientID for the payload
DecodePayloadNoFrames(name, domain) ==
    LET t == TrimSuffix(name, domain)
        dec == B32Decode(ToUpper(Join(t.fore)))
        zero == Fill(0, ClientIDSize)
    IN  IF ~t.ok \/ dec.err # "" \/ Len(dec.data) < ClientIDSize
        THEN [err |-> "ErrInvalidPayload", clientID |-> zero, payload |-> <<>>]
        ELSE [err |-> "", clientID |-> Slice(dec.data, 1, ClientIDSize),
              payload |-> Slice(dec.data, ClientIDSize + 1, Len(dec.data))]

\* DecodePayload(name, domain): [err, clientID, payload]
DecodePayload(name, domain) ==
    LET t == TrimSuffix(name, domain)
        dec == B32Decode(ToUpper(Join(t.fore)))
        zero == Fill(0, ClientIDSize)
    IN  IF ~t.ok
        THEN [err |-> "ErrInvalidPayload", clientID |-> zero, payload |-> <<>>]
        ELSE IF dec.err # ""
        THEN [err |-> "base32", clientID |-> zero, payload |-> <<>>]
        ELSE IF Len(dec.data) < ClientIDSize
        THEN [err |-> "ErrInvalidPayload", clientID |-> zero, payload |-> <<>>]
        ELSE LET cid == Slice(dec.data, 1, ClientIDSize)
                 fr == ReadFrames(Slice(dec.data, ClientIDSize + 1, Len(dec.data)), <<>>)
             IN  IF fr.err # ""
                 THEN [err |-> fr.err, clientID |-> cid, payload |-> <<>>]
                 ELSE [err |-> "", clientID |-> cid, payload |-> fr.payload]

(***************************************************************************)
(* The DNS wire codec: Message.Marshal with its name-compression cache and *)
(* ParseMessage with readName following compression pointers.              *)
(***************************************************************************)
RRTypeA == 1
RRTypeAAAA == 28
RRTypeTXT == 16
RRTypeOPT == 41
ClassIN == 1
compressionPointerLimit == 10

U16(v) == <<(v \div 256) % 256, v % 256>>

\* a uint32 is held as the 32-bit two's-complement integer of the same bits
\* (4294967295 is -1): the model checker's integers are 32 bits wide
U32(v) ==
    LET low == IF v < 0 THEN (v + 2147483647) + 1 ELSE v
        top == IF v < 0 THEN 128 ELSE 0
    IN  <<top + (low \div 16777216), (low \div 65536) % 256, (low \div 256) % 256,
          low % 256>>

\* NewName: the validation readName runs on the labels it collected
NewNameErr(labels) ==
    IF \E i \in 1..Len(labels) : Len(labels[i]) = 0 THEN "ErrZeroLengthLabel"
    ELSE IF \E i \in 1..Len(labels) : Len(labels[i]) > MaxLabelLength THEN "ErrLabelTooLong"
    ELSE IF NameWireLen(labels) > MaxNameLength THEN "ErrNameTooLong"
    ELSE ""

\* the builder's nameCache lookup; the key is name[i:].String(), which escapes
\* every byte outside [-0-9A-Za-z] and so is one-to-one on label sequences
\* and case-sensitive: the key is modelled as the label sequence itself
CacheHit(cache, suffix) ==
    /\ suffix \in DOMAIN cache
    /\ cache[suffix] <= 16383

CachePut(cache, suffix, off) ==
    [k \in (DOMAIN cache) \cup {suffix} |-> IF k = suffix THEN off ELSE cache[k]]

\* messageBuilder.writeName on the builder b = [buf, cache]
RECURSIVE writeName(_, _)
writeName(b, name) ==
    IF name = <<>>
    THEN [buf |-> b.buf \o <<0>>, cache |-> b.cache]
    ELSE IF CacheHit(b.cache, name)
    THEN [buf |-> b.buf \o U16(49152 + b.cache[name]), cache |-> b.cache]
    ELSE writeName([buf |-> b.buf \o <<Len(Head(name)) % 256>> \o Head(name),
                    cache |-> CachePut(b.cache, name, Len(b.buf))],
                   Tail(name))

writeQuestion(b, q) ==
    LET b1 == writeName(b, q.Name)
    IN  [buf |-> b1.buf \o U16(q.Type) \o U16(q.Class), cache |-> b1.cache]

\* writeRR: [err, b]
writeRR(b, rr) ==
    LET b1 == writeName(b, rr.Name)
    IN  IF Len(rr.Data) >= 65536
        THEN [err |-> "ErrIntegerOverflow", b |-> b1]
        ELSE [err |-> "",
              b |-> [buf |-> b1.buf \o U16(rr.Type) \o U16(rr.Class) \o U32(rr.TTL)
                               \o U16(Len(rr.Data)) \o rr.Data,
                     cache |-> b1.cache]]

RECURSIVE writeQuestions(_, _)
writeQuestions(b, qs) ==
    IF qs = <<>> THEN b ELSE writeQuestions(writeQuestion(b, Head(qs)), Tail(qs))

RECURSIVE writeRRs(_, _)
writeRRs(b, rrs) ==
    IF rrs = <<>> THEN [err |-> "", b |-> b]
    ELSE LET r == writeRR(b, Head(rrs))
         IN  IF r.err # "" THEN r ELSE writeRRs(r.b, Tail(rrs))

\* Message.Marshal: [err, data]
Marshal(m) ==
    IF \E c \in {Len(m.Question), Len(m.Answer), Len(m.Authority), Len(m.Additional)} :
           c >= 65536
    THEN [err |-> "ErrIntegerOverflow", data |-> <<>>]
    ELSE LET hdr == U16(m.ID) \o U16(m.Flags) \o U16(Len(m.Question))
                      \o U16(Len(m.Answer)) \o U16(Len(m.Authority))
                      \o U16(Len(m.Additional))
             bq == writeQuestions([buf |-> hdr, cache |-> <<>>], m.Question)
             r == writeRRs(bq, m.Answer \o m.Authority \o m.Additional)
         IN  IF r.err # "" THEN [err |-> r.err, data |-> <<>>]
             ELSE [err |-> "", data |-> r.b.buf]

\* binary.Read of a big-endian integer of n bytes at pos (0-based): [err, v, pos]
ReadUint(buf, pos, n) ==
    IF pos + n > Len(buf)
    THEN [err |-> "EOF", v |-> 0, pos |-> pos]
    ELSE [err |-> "",
          v |-> IF n = 1 THEN buf[pos + 1]
                ELSE IF n = 2 THEN buf[pos + 1] * 256 + buf[pos + 2]
                ELSE LET low == (buf[pos + 1] % 128) * 16777216 + buf[pos + 2] * 65536
                                  + buf[pos + 3] * 256 + buf[pos + 4]
                     IN  IF buf[pos + 1] >= 128 THEN (low - 2147483647) - 1 ELSE low,
          pos |-> pos + n]

\* the loop of readName: the labels so far, the pointers followed, and the
\* position to resume at (-1 before the first pointer): [err, name, pos]
RECURSIVE readNameLoop(_, _, _, _, _)
readNameLoop(buf, pos, labels, numPointers, seekTo) ==
    IF pos >= Len(buf)
    THEN [err |-> "EOF", name |-> <<>>, pos |-> pos]
    ELSE LET labelType == buf[pos + 1]
             kind == labelType \div 64
             low == labelType % 64
         IN  CASE kind = 0 ->
                    IF low = 0
                    THEN [err |-> NewNameErr(labels),
                          name |-> IF NewNameErr(labels) = "" THEN labels ELSE <<>>,
                          pos |-> IF seekTo >= 0 THEN seekTo ELSE pos + 1]
                    ELSE IF pos + 1 + low > Len(buf)
                    THEN [err |-> "ErrUnexpectedEOF", name |-> <<>>, pos |-> pos]
                    ELSE readNameLoop(buf, pos + 1 + low,
                                      Append(labels, Slice(buf, pos + 2, pos + 1 + low)),
                                      numPointers, seekTo)
               [] kind = 3 ->
                    IF pos + 2 > Len(buf)
                    THEN [err |-> "EOF", name |-> <<>>, pos |-> pos]
                    ELSE IF numPointers + 1 > compressionPointerLimit
                    THEN [err |-> "ErrTooManyPointers", name |-> <<>>, pos |-> pos]
                    ELSE readNameLoop(buf, low * 256 + buf[pos + 2], labels,
                                      numPointers + 1,
                                      IF numPointers = 0 THEN pos + 2 ELSE seekTo)
               [] OTHER -> [err |-> "ErrReservedLabelType", name |-> <<>>, pos |-> pos]

readName(buf, pos) == readNameLoop(buf, pos, <<>>, 0, -1)

\* readQuestion: [err, q, pos]
readQuestion(buf, pos) ==
    LET n == readName(buf, pos)
        t == ReadUint(buf, n.pos, 2)
        c == ReadUint(buf, t.pos, 2)
        none == [Name |-> <<>>, Type |-> 0, Class |-> 0]
    IN  IF n.err # "" THEN [err |-> n.err, q |-> none, pos |-> pos]
        ELSE IF t.err # "" THEN [err |-> t.err, q |-> none, pos |-> pos]
        ELSE IF c.err # "" THEN [err |-> c.err, q |-> none, pos |-> pos]
        ELSE [err |-> "", q |-> [Name |-> n.name, Type |-> t.v, Class |-> c.v],
              pos |-> c.pos]

\* readRR: [err, rr, pos]
readRR(buf, pos) ==
    LET n == readName(buf, pos)
        t == ReadUint(buf, n.pos, 2)
        c == ReadUint(buf, t.pos, 2)
        ttl == ReadUint(buf, c.pos, 4)
        rdl == ReadUint(buf, ttl.pos, 2)
        none == [Name |-> <<>>, Type |-> 0, Class |-> 0, TTL |-> 0, Data |-> <<>>]
    IN  IF n.err # "" THEN [err |-> n.err, rr |-> none, pos |-> pos]
        ELSE IF t.err # "" THEN [err |-> t.err, rr |-> none, pos |-> pos]
        ELSE IF c.err # "" THEN [err |-> c.err, rr |-> none, pos |-> pos]
        ELSE IF ttl.err # "" THEN [err |-> ttl.err, rr |-> none, pos |-> pos]
        ELSE IF rdl.err # "" THEN [err |-> rdl.err, rr |-> none, pos |-> pos]
        ELSE IF rdl.pos + rdl.v > Len(buf)
        THEN [err |-> "ErrUnexpectedEOF", rr |-> none, pos |-> pos]
        ELSE [err |-> "",
              rr |-> [Name |-> n.name, Type |-> t.v, Class |-> c.v, TTL |-> ttl.v,
                      Data |-> Slice(buf, rdl.pos + 1, rdl.pos + rdl.v)],
              pos |-> rdl.pos + rdl.v]

\* a section of count questions: [err, items, pos]
RECURSIVE readQuestions(_, _, _, _)
readQuestions(buf, pos, count, acc) ==
    IF count = 0 THEN [err |-> "", items |-> acc, pos |-> pos]
    ELSE LET r == readQuestion(buf, pos)
         IN  IF r.err # "" THEN [err |-> r.err, items |-> <<>>, pos |-> pos]
             ELSE readQuestions(buf, r.pos, count - 1, Append(acc, r.q))

RECURSIVE readRRs(_, _, _, _)
readRRs(buf, pos, count, acc) ==
    IF count = 0 THEN [err |-> "", items |-> acc, pos |-> pos]
    ELSE LET r == readRR(buf, pos)
         IN  IF r.err # "" THEN [err |-> r.err, items |-> <<>>, pos |-> pos]
             ELSE readRRs(buf, r.pos, count - 1, Append(acc, r.rr))

NoMessage ==
    [ID |-> 0, Flags |-> 0, Question |-> <<>>, Answer |-> <<>>,
     Authority |-> <<>>, Additional |-> <<>>]

\* ParseMessage: [err, msg]
ParseMessage(buf) ==
    IF Len(buf) < 12 THEN [err |-> "EOF", msg |-> NoMessage]
    ELSE
      Only([qs \in {readQuestions(buf, 12, ReadUint(buf, 4, 2).v, <<>>)} |->
        IF qs.err # "" THEN [err |-> qs.err, msg |-> NoMessage]
        ELSE
      Only([an \in {readRRs(buf, qs.pos, ReadUint(buf, 6, 2).v, <<>>)} |->
        IF an.err # "" THEN [err |-> an.err, msg |-> NoMessage]
        ELSE
      Only([ns \in {readRRs(buf, an.pos, ReadUint(buf, 8, 2).v, <<>>)} |->
        IF ns.err # "" THEN [err |-> ns.err, msg |-> NoMessage]
        ELSE
      Only([ar \in {readRRs(buf, ns.pos, ReadUint(buf, 10, 2).v, <<>>)} |->
        IF ar.err # "" THEN [err |-> ar.err, msg |-> NoMessage]
        ELSE IF ar.pos < Len(buf) THEN [err |-> "ErrTrailingBytes", msg |-> NoMessage]
        ELSE [err |-> "",
              msg |-> [ID |-> ReadUint(buf, 0, 2).v, Flags |-> ReadUint(buf, 2, 2).v,
                       Question |-> qs.items, Answer |-> an.items,
                       Authority |-> ns.items, Additional |-> ar.items]]])])])])

(***************************************************************************)
(* The AEAD envelope (internal/crypto/chacha20.go).  HKDF and              *)
(* ChaCha20-Poly1305 are ideal: derived keys differ whenever the secret or *)
(* the context differ, and a sealed box (the masked payload followed by a  *)
(* 16-byte tag) opens under the key and nonce it was sealed with and under *)
(* no other.                                                               *)
(***************************************************************************)
TicksPerSecond == 4
NonceSize == 12
NonceCounterSize == 8
TimestampSize == 4
AEADOverhead == 16
ReplayWindowSeconds == 300
ClockSkewSeconds == 60

ReplayWindow == ReplayWindowSeconds * TicksPerSecond

ContextClientToServer == "client-to-server"

ContextServerToClient == "server-to-client"

\* HKDF-SHA256(secret, context)
\* a derivation that leaves the secret out
deriveKeyNoSecret(secret, context) == <<0, context>>

deriveKey(secret, context) == <<secret, context>>

\* a cipher that uses the client-to-server key in both directions
NewCipherOneKey(sharedSecret, isClient) ==
    [encryptKey |-> deriveKey(sharedSecret, ContextClientToServer),
     decryptKey |-> deriveKey(sharedSecret, ContextClientToServer)]

NewCipher(sharedSecret, isClient) ==
    IF isClient
    THEN [encryptKey |-> deriveKey(sharedSecret, ContextClientToServer),
          decryptKey |-> deriveKey(sharedSecret, ContextServerToClient)]
    ELSE [encryptKey |-> deriveKey(sharedSecret, ContextServerToClient),
          decryptKey |-> deriveKey(sharedSecret, ContextClientToServer)]

\* one byte that tells the keys of the model apart
KeyByte(key) == (2 * key[1] + (IF key[2] = ContextClientToServer THEN 0 ELSE 1)) % 256

\* the i-th byte of the key stream under key and nonce
StreamByte(key, nonce, i) == (16 * KeyByte(key) + nonce[NonceSize] + nonce[NonceCounterSize] + i) % 256

Sum(bytes) == IF bytes = <<>> THEN 0 ELSE (bytes[1] + Len(bytes)) % 256

\* the 16-byte authentication tag of a payload under key and nonce
Tag(key, nonce, payload) ==
    <<KeyByte(key)>> \o nonce \o <<Sum(payload), Len(payload) % 256, 0>>

\* aead.Seal(nil, nonce, payload, nil)
AEADSeal(key, nonce, payload) ==
    [i \in 1..Len(payload) |-> (payload[i] + StreamByte(key, nonce, i)) % 256]
        \o Tag(key, nonce, payload)

\* aead.Open(nil, nonce, ciphertext, nil): [ok, payload]
AEADOpen(key, nonce, ciphertext) ==
    IF Len(ciphertext) < AEADOverhead
    THEN [ok |-> FALSE, payload |-> <<>>]
    ELSE LET n == Len(ciphertext) - AEADOverhead
             payload == [i \in 1..n |->
                            (ciphertext[i] + 256 - StreamByte(key, nonce, i)) % 256]
         IN  IF Slice(ciphertext, n + 1, Len(ciphertext)) = Tag(key, nonce, payload)
             THEN [ok |-> TRUE, payload |-> payload]
             ELSE [ok |-> FALSE, payload |-> <<>>]

\* a counter that is read but not advanced
AtomicAddStuck(counter) == counter

\* atomic.AddUint64(&c.counter, 1): the new value (the 2^64 wrap is out of reach)
AtomicAdd(counter) == counter + 1

\* the nonce: the counter (8 bytes big-endian), then 4 random bytes
Nonce(counter, random) ==
    Fill(0, NonceCounterSize - 4) \o U32(counter)
        \o Fill(random, NonceSize - NonceCounterSize)

\* time.Now().Unix(): whole seconds
UnixSeconds(t) == t \div TicksPerSecond

\* uint32(time.Now().Unix()), the timestamp Encrypt writes
Timestamp(t) == UnixSeconds(t)

\* Cipher.Encrypt with the counter value it obtained, its random bytes and
\* the clock it read
Encrypt(c, counter, random, t, plaintext) ==
    Nonce(counter, random)
        \o AEADSeal(c.encryptKey, Nonce(counter, random), U32(Timestamp(t)) \o plaintext)

\* Cipher.EncryptWithoutTimestamp
EncryptWithoutTimestamp(c, counter, random, plaintext) ==
    Nonce(counter, random) \o AEADSeal(c.encryptKey, Nonce(counter, random), plaintext)

\* a freshness check that uses the one-minute skew tolerance as the window
TooOldUsesSkew(t, timestamp) ==
    t - timestamp * TicksPerSecond > ClockSkewSeconds * TicksPerSecond

\* now.Sub(msgTime) > ReplayWindow
TooOld(t, timestamp) == t - timestamp * TicksPerSecond > ReplayWindow

\* a skew check that refuses the bound itself
TooNewAtBound(t, timestamp) ==
    \/ timestamp < 0
    \/ timestamp * TicksPerSecond - t >= ClockSkewSeconds * TicksPerSecond

\* msgTime.Sub(now) > time.Minute; a timestamp of 2^31 or more is held as a
\* negative integer and lies in the future of every clock of the model
TooNew(t, timestamp) ==
    \/ timestamp < 0
    \/ timestamp * TicksPerSecond - t > ClockSkewSeconds * TicksPerSecond

\* Cipher.Decrypt at clock t: [err, plaintext]
Decrypt(c, data, t) ==
    IF Len(data) < NonceSize + TimestampSize + AEADOverhead
    THEN [err |-> "ErrDecryptionFailed", plaintext |-> <<>>]
    ELSE LET opened == AEADOpen(c.decryptKey, Slice(data, 1, NonceSize),
                                Slice(data, NonceSize + 1, Len(data)))
         IN  IF ~opened.ok
             THEN [err |-> "ErrDecryptionFailed", plaintext |-> <<>>]
             ELSE IF Len(opened.payload) < TimestampSize
             THEN [err |-> "ErrDecryptionFailed", plaintext |-> <<>>]
             ELSE LET timestamp == ReadUint(opened.payload, 0, TimestampSize).v
                  IN  IF timestamp >= 0 /\ TooOld(t, timestamp)
                      THEN [err |-> "ErrMessageTooOld", plaintext |-> <<>>]
                      ELSE IF TooNew(t, timestamp)
                      THEN [err |-> "ErrMessageTooNew", plaintext |-> <<>>]
                      ELSE [err |-> "",
                            plaintext |-> Slice(opened.payload, TimestampSize + 1,
                                                Len(opened.payload))]

\* Cipher.DecryptWithoutTimestamp: [err, plaintext]
DecryptWithoutTimestamp(c, data) ==
    IF Len(data) < NonceSize + AEADOverhead
    THEN [err |-> "ErrDecryptionFailed", plaintext |-> <<>>]
    ELSE LET opened == AEADOpen(c.decryptKey, Slice(data, 1, NonceSize),
                                Slice(data, NonceSize + 1, Len(data)))
         IN  IF ~opened.ok
             THEN [err |-> "ErrDecryptionFailed", plaintext |-> <<>>]
             ELSE [err |-> "", plaintext |-> opened.payload]

(***************************************************************************)
(* The payload codec's inputs and its specification: an input is drawn,    *)
(* EncodePayload runs on it, DecodePayload runs on the name it returned.   *)
(***************************************************************************)
MaxPayloadLen == 150

PayloadLens == (0..MaxPayloadLen) \cup {PaddingPrefixBase - 1, PaddingPrefixBase}

\* a payload of n bytes whose bytes run through all values from a seed
PayloadOf(n, seed) == [i \in 1..n |-> (seed + 7 * i) % 256]

Label(ch, n) == Fill(ch, n)

\* the suffix domains: the root, t.example.com, and two long ones
DomainRoot == <<>>

DomainTunnel == << <<116>>, <<101, 120, 97, 109, 112, 108, 101>>, <<99, 111, 109>> >>

DomainMid == << Label(97, MaxLabelLength), Label(98, MaxLabelLength) >>

DomainLong == << Label(97, MaxLabelLength), Label(98, MaxLabelLength),
                 Label(99, MaxLabelLength), Label(100, 50) >>

DomainSet == {DomainRoot, DomainTunnel, DomainMid, DomainLong}

\* the ClientID, the payload bytes and the padding bytes drawn together
CodecVariants ==
    { [clientID |-> <<1, 2, 3, 4, 5, 6, 7, 8>>, seed |-> 0, padFill |-> 0],
      [clientID |-> Fill(255, ClientIDSize), seed |-> 221, padFill |-> 255] }

CodecInit ==
    /\ cStage = "input"
    /\ \E n \in PayloadLens, d \in DomainSet, r \in {0, 1, 2, 3, 4, 5, 255},
          v \in CodecVariants :
          cIn = [payload |-> PayloadOf(n, v.seed), clientID |-> v.clientID,
                 domain |-> d, randByte |-> r, padFill |-> v.padFill]
    /\ cName = <<>>
    /\ cOut = <<>>

CodecEncode ==
    /\ cStage = "input"
    /\ cStage' = "encoded"
    /\ cName' = EncodePayload(cIn.payload, cIn.clientID, cIn.domain,
                              cIn.randByte, cIn.padFill)
    /\ UNCHANGED <<cIn, cOut>>

CodecDecode ==
    /\ cStage = "encoded"
    /\ cName.err = ""
    /\ cStage' = "decoded"
    /\ cOut' = DecodePayload(cName.name, cIn.domain)
    /\ UNCHANGED <<cIn, cName>>

CodecNext ==
    \/ CodecEncode /\ UNCHANGED <<wireVars, now, cipherVars, replayVars, rateVars, tunnelVars, extraVars>>
    \/ CodecDecode /\ UNCHANGED <<wireVars, now, cipherVars, replayVars, rateVars, tunnelVars, extraVars>>

\* the state after construction: the other components are idle
CodecStart ==
    /\ CodecInit
    /\ WireIdle
    /\ ClockIdle
    /\ CipherIdle
    /\ ReplayIdle
    /\ RateIdle
    /\ TunnelIdle
    /\ ExtraIdle

SpecCodec == CodecStart /\ [][CodecNext]_vars

(***************************************************************************)
(* C2: DecodePayload(EncodePayload(b, cid, D), D) returns (cid, b) without *)
(* error, for every payload that EncodePayload accepted and every padding  *)
(* length it drew.                                                         *)
(***************************************************************************)
C2_RoundTrip ==
    cStage = "decoded" =>
        /\ cOut.err = ""
        /\ cOut.clientID = cIn.clientID
        /\ cOut.payload = cIn.payload

C2_Witness ==
    /\ cStage = "decoded"
    /\ Len(cIn.payload) = 100
    /\ cIn.randByte = 255
    /\ cOut.payload = cIn.payload

(***************************************************************************)
(* C3: every name EncodePayload returns has wire length at most 255 and    *)
(* labels of 1 to 63 bytes, the capacity check alone guaranteeing it.      *)
(***************************************************************************)
C3_NameFits ==
    (cStage \in {"encoded", "decoded"} /\ cName.err = "") =>
        /\ NameWireLen(cName.name) <= MaxNameLength
        /\ \A i \in 1..Len(cName.name) :
              Len(cName.name[i]) >= 1 /\ Len(cName.name[i]) <= MaxLabelLength

C3_Witness ==
    /\ cStage = "encoded"
    /\ cName.err = ""
    /\ cIn.domain = DomainRoot
    /\ NameWireLen(cName.name) = MaxNameLength

(***************************************************************************)
(* The wire codec's inputs and its specification: a Message is drawn,      *)
(* Marshal runs on it, ParseMessage runs on the bytes Marshal returned.    *)
(***************************************************************************)
MaxChain == 12

WireNames ==
    { <<>>, << <<97>> >>, << <<98>>, <<97>> >>, << <<66>>, <<97>> >>,
      << <<99>>, <<98>>, <<97>> >> }

RecordA(n) ==
    [Name |-> n, Type |-> RRTypeA, Class |-> ClassIN, TTL |-> 60,
     Data |-> <<192, 168, 1, 1>>]

\* a TXT record with the largest TTL, 4294967295
RecordTXT(n) ==
    [Name |-> n, Type |-> RRTypeTXT, Class |-> ClassIN, TTL |-> -1,
     Data |-> <<3, 97, 98, 99>>]

\* AddEDNS0's record: the root name, the UDP size in the class field
RecordOPT(udpSize) ==
    [Name |-> <<>>, Type |-> RRTypeOPT, Class |-> udpSize, TTL |-> 0, Data |-> <<>>]

WireRRs == {RecordA(n) : n \in WireNames} \cup {RecordTXT(n) : n \in WireNames}

WireQuestions == {[Name |-> n, Type |-> RRTypeTXT, Class |-> ClassIN] : n \in WireNames}

WireHeaders == {[ID |-> 4660, Flags |-> 256], [ID |-> 65535, Flags |-> 34179]}

SeqsUpTo2(S) == {<<>>} \cup {<<x>> : x \in S} \cup {<<x, y>> : x \in S, y \in S}

SmallMessages ==
    { [ID |-> h.ID, Flags |-> h.Flags, Question |-> q, Answer |-> an,
       Authority |-> ns, Additional |-> ar] :
        h \in WireHeaders,
        q \in {<<>>} \cup {<<x>> : x \in WireQuestions},
        an \in SeqsUpTo2(WireRRs),
        ns \in {<<>>, <<RecordA(<< <<98>>, <<97>> >>)>>},
        ar \in {<<>>, <<RecordOPT(4096)>>} }

\* the name of k one-byte labels "k"...."b"."a": each extends the one before
ChainName(k) == [i \in 1..k |-> <<97 + (k - i)>>]

\* k answers, the i-th owned by ChainName(i)
ChainMessage(k) ==
    [ID |-> 4660, Flags |-> 33152, Question |-> <<>>,
     Answer |-> [i \in 1..k |-> RecordA(ChainName(i))],
     Authority |-> <<>>, Additional |-> <<>>]

WireMessages == SmallMessages \cup {ChainMessage(k) : k \in 1..MaxChain}

WireInit ==
    /\ wStage = "input"
    /\ wMsg \in WireMessages
    /\ wBytes = <<>>
    /\ wParsed = <<>>

WireMarshal ==
    /\ wStage = "input"
    /\ wStage' = "marshalled"
    /\ wBytes' = Marshal(wMsg)
    /\ UNCHANGED <<wMsg, wParsed>>

WireParse ==
    /\ wStage = "marshalled"
    /\ wBytes.err = ""
    /\ wStage' = "parsed"
    /\ wParsed' = ParseMessage(wBytes.data)
    /\ UNCHANGED <<wMsg, wBytes>>

WireNext ==
    \/ WireMarshal /\ UNCHANGED <<codecVars, now, cipherVars, replayVars, rateVars, tunnelVars, extraVars>>
    \/ WireParse /\ UNCHANGED <<codecVars, now, cipherVars, replayVars, rateVars, tunnelVars, extraVars>>

\* the state after construction: the other components are idle
WireStart ==
    /\ WireInit
    /\ CodecIdle
    /\ ClockIdle
    /\ CipherIdle
    /\ ReplayIdle
    /\ RateIdle
    /\ TunnelIdle
    /\ ExtraIdle

SpecWire == WireStart /\ [][WireNext]_vars

NameEqualFold(a, b) ==
    /\ Len(a) = Len(b)
    /\ \A i \in 1..Len(a) : EqualFold(a[i], b[i])

QuestionsEqualFold(a, b) ==
    /\ Len(a) = Len(b)
    /\ \A i \in 1..Len(a) :
          /\ NameEqualFold(a[i].Name, b[i].Name)
          /\ a[i].Type = b[i].Type
          /\ a[i].Class = b[i].Class

RRsEqualFold(a, b) ==
    /\ Len(a) = Len(b)
    /\ \A i \in 1..Len(a) :
          /\ NameEqualFold(a[i].Name, b[i].Name)
          /\ a[i].Type = b[i].Type
          /\ a[i].Class = b[i].Class
          /\ a[i].TTL = b[i].TTL
          /\ a[i].Data = b[i].Data

MessageEqualFold(a, b) ==
    /\ a.ID = b.ID
    /\ a.Flags = b.Flags
    /\ QuestionsEqualFold(a.Question, b.Question)
    /\ RRsEqualFold(a.Answer, b.Answer)
    /\ RRsEqualFold(a.Authority, b.Authority)
    /\ RRsEqualFold(a.Additional, b.Additional)

(***************************************************************************)
(* C4: ParseMessage(Marshal(m)) succeeds and yields m (ID, flags, question *)
(* and RR tuples in order) up to label case, for every message of valid    *)
(* names, compression pointers included.                                   *)
(***************************************************************************)
C4_RoundTrip ==
    wStage = "parsed" =>
        /\ wParsed.err = ""
        /\ MessageEqualFold(wParsed.msg, wMsg)

(***************************************************************************)
(* The envelope's specification: with the clock moving between instants    *)
(* around the replay window, either cipher seals an envelope (with or      *)
(* without timestamp) and either cipher opens the envelope last sealed.    *)
(***************************************************************************)
MaxSeals == 3

SharedSecret == 1

CipherOf(r) == NewCipher(SharedSecret, r = "client")

Plaintexts == {<<>>, <<18, 52, 1, 0>>}

RandomTails == {0, 1}

\* the instants of the model: the start, a fraction of a second later, and
\* the ticks from one second before the replay window to two seconds after
CipherTimePoints ==
    {0, TicksPerSecond - 1}
        \cup {ReplayWindow + k : k \in (0 - TicksPerSecond)..(2 * TicksPerSecond)}

CipherInit ==
    /\ now = 0
    /\ kCounter = [r \in Roles |-> 0]
    /\ kEnv = <<>>
    /\ kOpen = <<>>
    /\ kTask = <<>>
    /\ kIssued = <<>>
    /\ kNonces = <<>>

CipherTick ==
    /\ kOpen = <<>>
    /\ \E t \in CipherTimePoints : t > now /\ now' = t
    /\ UNCHANGED cipherVars

\* Encrypt (kind "ts") or EncryptWithoutTimestamp (kind "plain") on role r's cipher
CipherSeal ==
    /\ kOpen = <<>>
    /\ \E r \in Roles, kind \in {"ts", "plain"}, pt \in Plaintexts, rnd \in RandomTails :
          /\ kCounter[r] < MaxSeals
          /\ kCounter' = [kCounter EXCEPT ![r] = AtomicAdd(kCounter[r])]
          /\ kEnv' = [env |-> IF kind = "ts"
                              THEN Encrypt(CipherOf(r), kCounter'[r], rnd, now, pt)
                              ELSE EncryptWithoutTimestamp(CipherOf(r), kCounter'[r],
                                                           rnd, pt),
                      by |-> r, kind |-> kind, plaintext |-> pt, sealedAt |-> now]
    /\ UNCHANGED <<now, kOpen, kTask, kIssued, kNonces>>

\* Decrypt (mode "ts") or DecryptWithoutTimestamp (mode "plain") on role r's cipher
CipherOpen ==
    /\ kOpen = <<>>
    /\ kEnv # <<>>
    /\ \E r \in Roles, mode \in {"ts", "plain"} :
          kOpen' = [by |-> r, mode |-> mode, at |-> now,
                    res |-> IF mode = "ts"
                            THEN Decrypt(CipherOf(r), kEnv.env, now)
                            ELSE DecryptWithoutTimestamp(CipherOf(r), kEnv.env)]
    /\ UNCHANGED <<now, kCounter, kEnv, kTask, kIssued, kNonces>>

CipherOpenReturn ==
    /\ kOpen # <<>>
    /\ kOpen' = <<>>
    /\ UNCHANGED <<now, kCounter, kEnv, kTask, kIssued, kNonces>>

CipherNext ==
    \/ CipherTick /\ UNCHANGED <<codecVars, wireVars, replayVars, rateVars, tunnelVars, extraVars>>
    \/ CipherSeal /\ UNCHANGED <<codecVars, wireVars, replayVars, rateVars, tunnelVars, extraVars>>
    \/ CipherOpen /\ UNCHANGED <<codecVars, wireVars, replayVars, rateVars, tunnelVars, extraVars>>
    \/ CipherOpenReturn /\ UNCHANGED <<codecVars, wireVars, replayVars, rateVars, tunnelVars, extraVars>>

\* the state after construction: the other components are idle
CipherStart ==
    /\ CipherInit
    /\ CodecIdle
    /\ WireIdle
    /\ ReplayIdle
    /\ RateIdle
    /\ TunnelIdle
    /\ ExtraIdle

SpecCipher == CipherStart /\ [][CipherNext]_vars

\* the server opens, with Decrypt, an envelope the client sealed with Encrypt
ServerOpensClientSeal ==
    /\ kOpen # <<>>
    /\ kOpen.by = "server"
    /\ kOpen.mode = "ts"
    /\ kEnv.by = "client"
    /\ kEnv.kind = "ts"

Elapsed == kOpen.at - kEnv.sealedAt

(***************************************************************************)
(* C5 as stated: the server's open of a client-sealed timestamped envelope *)
(* returns the plaintext whenever less than 5 minutes have elapsed since   *)
(* sealing, and a too-old error whenever more than 5 minutes have.         *)
(***************************************************************************)
C5_FreshWithinFiveMinutes ==
    ServerOpensClientSeal =>
        /\ (Elapsed < ReplayWindow =>
               kOpen.res = [err |-> "", plaintext |-> kEnv.plaintext])
        /\ (Elapsed > ReplayWindow => kOpen.res.err = "ErrMessageTooOld")

(***************************************************************************)
(* C5 amended: the timestamp is in whole seconds, so the open returns the  *)
(* plaintext whenever at most 5 minutes minus one second have elapsed, and *)
(* a too-old error whenever more than 5 minutes have.                      *)
(***************************************************************************)
C5_FreshWithinWholeSeconds ==
    ServerOpensClientSeal =>
        /\ (Elapsed <= ReplayWindow - TicksPerSecond =>
               kOpen.res = [err |-> "", plaintext |-> kEnv.plaintext])
        /\ (Elapsed > ReplayWindow => kOpen.res.err = "ErrMessageTooOld")

C5_Witness ==
    /\ ServerOpensClientSeal
    /\ kEnv.sealedAt = TicksPerSecond - 1
    /\ Elapsed = ReplayWindow - TicksPerSecond
    /\ kEnv.plaintext # <<>>
    /\ kOpen.res = [err |-> "", plaintext |-> kEnv.plaintext]

(***************************************************************************)
(* C24: with one shared secret each role encrypts with the key the other   *)
(* decrypts with, and the two keys differ: an envelope sealed by one role  *)
(* opens on the other role (with the matching call, and fresh when it      *)
(* carries a timestamp) and gives back the plaintext, and no cipher opens  *)
(* an envelope sealed by a cipher of its own role: a query envelope        *)
(* reflected to the client, or a response replayed to the server, gets     *)
(* ErrDecryptionFailed from either call.                                   *)
(***************************************************************************)
C24_RoleKeys ==
    /\ CipherOf("client").encryptKey = CipherOf("server").decryptKey
    /\ CipherOf("server").encryptKey = CipherOf("client").decryptKey
    /\ kOpen # <<>> =>
        /\ kOpen.by = kEnv.by => kOpen.res.err = "ErrDecryptionFailed"
        /\ kOpen.by # kEnv.by /\ kEnv.kind = "plain" /\ kOpen.mode = "plain" =>
                kOpen.res = [err |-> "", plaintext |-> kEnv.plaintext]
        /\ kOpen.by # kEnv.by /\ kEnv.kind = "ts" /\ kOpen.mode = "ts"
                /\ Elapsed <= ReplayWindow - TicksPerSecond =>
                kOpen.res = [err |-> "", plaintext |-> kEnv.plaintext]

\* a query envelope the client sealed comes back to the client as if it
\* were a response, and is refused
C24_Witness ==
    /\ kOpen # <<>>
    /\ kEnv.by = "client"
    /\ kEnv.kind = "ts"
    /\ kEnv.plaintext # <<>>
    /\ kOpen.by = "client"
    /\ kOpen.mode = "plain"
    /\ kOpen.res.err = "ErrDecryptionFailed"

(***************************************************************************)
(* Freshness with clocks that disagree: the client seals with the time its *)
(* own clock shows, which is ahead of or behind the server's.              *)
(***************************************************************************)
\* how far the sealer's clock is off the opener's, in ticks: around one
\* minute ahead, around five minutes behind, and in step
SenderSkews ==
    {0}
        \cup {ClockSkewSeconds * TicksPerSecond + k : k \in (0 - TicksPerSecond)..(2 * TicksPerSecond)}
        \cup {0 - (ReplayWindow + k) : k \in (0 - TicksPerSecond)..TicksPerSecond}

\* Encrypt on the client's cipher, whose clock shows now + skew
FreshSeal ==
    /\ kOpen = <<>>
    /\ \E skew \in SenderSkews, pt \in Plaintexts, rnd \in RandomTails :
          /\ now + skew >= 0
          /\ kCounter["client"] < MaxSeals
          /\ kCounter' = [kCounter EXCEPT !["client"] = AtomicAdd(kCounter["client"])]
          /\ kEnv' = [env |-> Encrypt(CipherOf("client"), kCounter'["client"], rnd,
                                      now + skew, pt),
                      by |-> "client", kind |-> "ts", plaintext |-> pt,
                      sealedAt |-> now + skew]
    /\ UNCHANGED <<now, kOpen, kTask, kIssued, kNonces>>

FreshNext ==
    \/ CipherTick /\ UNCHANGED <<codecVars, wireVars, replayVars, rateVars, tunnelVars, extraVars>>
    \/ FreshSeal /\ UNCHANGED <<codecVars, wireVars, replayVars, rateVars, tunnelVars, extraVars>>
    \/ CipherOpen /\ UNCHANGED <<codecVars, wireVars, replayVars, rateVars, tunnelVars, extraVars>>
    \/ CipherOpenReturn /\ UNCHANGED <<codecVars, wireVars, replayVars, rateVars, tunnelVars, extraVars>>

FreshStart ==
    /\ CipherInit
    /\ CodecIdle
    /\ WireIdle
    /\ ReplayIdle
    /\ RateIdle
    /\ TunnelIdle
    /\ ExtraIdle

SpecFresh == FreshStart /\ [][FreshNext]_vars

\* the instant the envelope's timestamp T stands for, in ticks
StampedAt == Timestamp(kEnv.sealedAt) * TicksPerSecond

(***************************************************************************)
(* C25: Decrypt on the server, at clock reading now, of an authentic       *)
(* envelope the client stamped with T returns the plaintext iff            *)
(* now - T <= 5 min and T - now <= 1 min; it returns ErrMessageTooNew when *)
(* T is more than 1 minute ahead of now and ErrMessageTooOld when T is     *)
(* more than 5 minutes behind; a timestamp exactly at either bound is      *)
(* accepted.                                                               *)
(***************************************************************************)
C25_AcceptedIffWithinSkew ==
    ServerOpensClientSeal =>
        /\ (kOpen.res.err = "" <=>
                /\ kOpen.at - StampedAt <= ReplayWindow
                /\ StampedAt - kOpen.at <= ClockSkewSeconds * TicksPerSecond)
        /\ kOpen.res.err = "" => kOpen.res.plaintext = kEnv.plaintext
        /\ (StampedAt - kOpen.at > ClockSkewSeconds * TicksPerSecond =>
                kOpen.res.err = "ErrMessageTooNew")
        /\ (kOpen.at - StampedAt > ReplayWindow => kOpen.res.err = "ErrMessageTooOld")

\* a timestamp exactly one minute ahead of the opener's clock is accepted
C25_Witness ==
    /\ ServerOpensClientSeal
    /\ StampedAt - kOpen.at = ClockSkewSeconds * TicksPerSecond
    /\ kEnv.plaintext # <<>>
    /\ kOpen.res = [err |-> "", plaintext |-> kEnv.plaintext]

(***************************************************************************)
(* Concurrent seals on one cipher: each call first takes its counter value *)
(* with one atomic add, and later (after other calls may have run) draws   *)
(* its random bytes and seals.                                             *)
(***************************************************************************)
MaxSealers == 3

Sealers == 1..MaxSealers

NonceInit ==
    /\ now = 0
    /\ kCounter = [r \in Roles |-> 0]
    /\ kEnv = <<>>
    /\ kOpen = <<>>
    /\ kTask = [t \in Sealers |-> [pc |-> "idle", ctr |-> 0, kind |-> "ts"]]
    /\ kIssued = <<>>
    /\ kNonces = <<>>

\* atomic.AddUint64 in Encrypt or EncryptWithoutTimestamp
NonceAdd(t) ==
    /\ kTask[t].pc = "idle"
    /\ Len(kIssued) < MaxSeals
    /\ \E kind \in {"ts", "plain"} :
          /\ kCounter' = [kCounter EXCEPT !["client"] = AtomicAdd(kCounter["client"])]
          /\ kTask' = [kTask EXCEPT ![t] = [pc |-> "added", ctr |-> kCounter'["client"],
                                            kind |-> kind]]
          /\ kIssued' = Append(kIssued, kCounter'["client"])
    /\ UNCHANGED <<now, kEnv, kOpen, kNonces>>

\* the rest of the call: the random bytes, the seal, the envelope returned
NonceSeal(t) ==
    /\ kTask[t].pc = "added"
    /\ \E rnd \in RandomTails :
          LET env == IF kTask[t].kind = "ts"
                     THEN Encrypt(CipherOf("client"), kTask[t].ctr, rnd, now, <<1>>)
                     ELSE EncryptWithoutTimestamp(CipherOf("client"), kTask[t].ctr,
                                                  rnd, <<1>>)
          IN  kNonces' = Append(kNonces, Slice(env, 1, NonceSize))
    /\ kTask' = [kTask EXCEPT ![t] = [pc |-> "idle", ctr |-> 0, kind |-> "ts"]]
    /\ UNCHANGED <<now, kCounter, kEnv, kOpen, kIssued>>

NonceNext ==
    \/ \E t \in Sealers : NonceAdd(t) /\ UNCHANGED <<codecVars, wireVars, replayVars, rateVars, tunnelVars, extraVars>>
    \/ \E t \in Sealers : NonceSeal(t) /\ UNCHANGED <<codecVars, wireVars, replayVars, rateVars, tunnelVars, extraVars>>

\* the state after construction: the other components are idle
NonceStart ==
    /\ NonceInit
    /\ CodecIdle
    /\ WireIdle
    /\ ReplayIdle
    /\ RateIdle
    /\ TunnelIdle
    /\ ExtraIdle

SpecNonce == NonceStart /\ [][NonceNext]_vars

(***************************************************************************)
(* C6: across any interleaving of concurrent Encrypt and                   *)
(* EncryptWithoutTimestamp calls on one cipher, the counter values handed  *)
(* out are strictly increasing, and no two envelopes carry the same nonce. *)
(***************************************************************************)
C6_NoncesDistinct ==
    /\ \A i, j \in 1..Len(kIssued) : i < j => kIssued[i] < kIssued[j]
    /\ \A i, j \in 1..Len(kNonces) : i # j => kNonces[i] # kNonces[j]

C6_Witness ==
    /\ Len(kNonces) = MaxSeals
    /\ kNonces[1][NonceCounterSize] > kNonces[2][NonceCounterSize]
    /\ kNonces[1][NonceSize] = kNonces[2][NonceSize]

(***************************************************************************)
(* The replay cache (internal/crypto/chacha20.go, ReplayDetector), created *)
(* by NewSecurity with the cipher's ReplayWindow.  Check reads the map     *)
(* under the read lock and, when the nonce is absent, inserts it under the *)
(* write lock taken afterwards: two steps.  cleanup runs on a ticker of    *)
(* period window/2.                                                        *)
(***************************************************************************)
MaxSweeps == 4

SweepPeriod == ReplayWindow \div 2

ReplayNonces == {Nonce(1, 0), Nonce(2, 1)}

Checkers == 1..2

\* the instants of the model: each tick of the cleanup ticker and the clock
\* tick after it
ReplayTimePoints ==
    {k * SweepPeriod + d : k \in 0..(MaxSweeps - 1), d \in 0..1}
        \cup {MaxSweeps * SweepPeriod}

\* a sweep whose cutoff is half a window back
CutoffHalfWindow(t) == t - SweepPeriod

\* cutoff := time.Now().Add(-rd.window)
Cutoff(t) == t - ReplayWindow

\* v.Before(cutoff)
Before(v, cutoff) == v < cutoff

IdleCheck == [pc |-> "idle", nonce |-> <<>>, exists |-> FALSE, result |-> FALSE,
              first |-> FALSE, insAt |-> -1, readAt |-> -1, sweptAt |-> -1]

ReplayInit ==
    /\ now = 0
    /\ rSeen = [n \in ReplayNonces |-> -1]
    /\ rTask = [t \in Checkers |-> IdleCheck]
    /\ rSwept = 0
    /\ rIns = [n \in ReplayNonces |-> -1]
    /\ rCalled = {}

\* the clock never passes a tick of the cleanup ticker without the sweep
ReplayTick ==
    /\ \E t \in ReplayTimePoints :
          /\ t > now
          /\ t <= rSwept + SweepPeriod
          /\ now' = t
    /\ UNCHANGED replayVars

\* Check, up to the release of the read lock
CheckRead(t) ==
    /\ rTask[t].pc = "idle"
    /\ \E n \in ReplayNonces :
          /\ rTask' = [rTask EXCEPT ![t] =
                          [pc |-> IF rSeen[n] >= 0 THEN "done" ELSE "write",
                           nonce |-> n, exists |-> rSeen[n] >= 0,
                           result |-> rSeen[n] >= 0,
                           first |-> n \notin rCalled,
                           insAt |-> rIns[n], readAt |-> now,
                           sweptAt |-> rSwept]]
          /\ rCalled' = rCalled \cup {n}
    /\ UNCHANGED <<now, rSeen, rSwept, rIns>>

\* Check, the insert under the write lock
CheckWrite(t) ==
    /\ rTask[t].pc = "write"
    /\ rSeen' = [rSeen EXCEPT ![rTask[t].nonce] = now]
    /\ rIns' = [rIns EXCEPT ![rTask[t].nonce] = now]
    /\ rTask' = [rTask EXCEPT ![t].pc = "done"]
    /\ UNCHANGED <<now, rSwept, rCalled>>

CheckReturn(t) ==
    /\ rTask[t].pc = "done"
    /\ rTask' = [rTask EXCEPT ![t] = IdleCheck]
    /\ UNCHANGED <<now, rSeen, rSwept, rIns, rCalled>>

\* one tick of cleanup's ticker
ReplayCleanup ==
    /\ now = rSwept + SweepPeriod
    /\ rSeen' = [n \in ReplayNonces |->
                    IF rSeen[n] >= 0 /\ Before(rSeen[n], Cutoff(now))
                    THEN -1 ELSE rSeen[n]]
    /\ rSwept' = now
    /\ UNCHANGED <<now, rTask, rIns, rCalled>>

ReplayNext ==
    \/ ReplayTick /\ UNCHANGED <<codecVars, wireVars, cipherVars, rateVars, tunnelVars, extraVars>>
    \/ \E t \in Checkers :
          CheckRead(t) /\ UNCHANGED <<codecVars, wireVars, cipherVars, rateVars, tunnelVars, extraVars>>
    \/ \E t \in Checkers :
          CheckWrite(t) /\ UNCHANGED <<codecVars, wireVars, cipherVars, rateVars, tunnelVars, extraVars>>
    \/ \E t \in Checkers :
          CheckReturn(t) /\ UNCHANGED <<codecVars, wireVars, cipherVars, rateVars, tunnelVars, extraVars>>
    \/ ReplayCleanup /\ UNCHANGED <<codecVars, wireVars, cipherVars, rateVars, tunnelVars, extraVars>>

\* the state after construction: the other components are idle
ReplayStart ==
    /\ ReplayInit
    /\ CodecIdle
    /\ WireIdle
    /\ CipherIdle
    /\ RateIdle
    /\ TunnelIdle
    /\ ExtraIdle

SpecReplay == ReplayStart /\ [][ReplayNext]_vars

\* Check call t has its result, and its nonce was inserted before it read
LaterCheck(t) == rTask[t].pc = "done" /\ rTask[t].insAt >= 0

(***************************************************************************)
(* C7 as stated: the first Check(n) returns false; a later Check(n) within *)
(* the window after the insert returns true; a Check(n) made after the     *)
(* window has expired returns false again.                                 *)
(***************************************************************************)
C7_FalseAfterWindow ==
    \A t \in Checkers :
        /\ (rTask[t].pc = "done" /\ rTask[t].first => rTask[t].result = FALSE)
        /\ (LaterCheck(t) /\ rTask[t].readAt - rTask[t].insAt <= ReplayWindow
               => rTask[t].result = TRUE)
        /\ (LaterCheck(t) /\ rTask[t].readAt - rTask[t].insAt > ReplayWindow
               => rTask[t].result = FALSE)

(***************************************************************************)
(* C7 amended: the first Check(n) returns false; a later Check(n) within   *)
(* the window after the insert returns true; a Check(n) made after a       *)
(* cleanup sweep that ran more than a window after the insert returns      *)
(* false again, which with the ticker on time is the case for every        *)
(* Check(n) made more than one and a half windows after the insert.        *)
(***************************************************************************)
C7_FalseAfterSweep ==
    \A t \in Checkers :
        /\ (rTask[t].pc = "done" /\ rTask[t].first => rTask[t].result = FALSE)
        /\ (LaterCheck(t) /\ rTask[t].readAt - rTask[t].insAt <= ReplayWindow
               => rTask[t].result = TRUE)
        /\ (LaterCheck(t)
               /\ rTask[t].sweptAt - rTask[t].insAt > ReplayWindow
               => rTask[t].result = FALSE)
        /\ (LaterCheck(t)
               /\ rTask[t].readAt - rTask[t].insAt > ReplayWindow + SweepPeriod
               => rTask[t].result = FALSE)

C7_Witness ==
    \E t \in Checkers :
        /\ LaterCheck(t)
        /\ rTask[t].readAt - rTask[t].insAt > ReplayWindow + SweepPeriod
        /\ rTask[t].result = FALSE
        /\ rIns[rTask[t].nonce] = rTask[t].readAt

(***************************************************************************)
(* C8: of the Check calls that find a nonce never inserted before, at most *)
(* one returns false (first sight).                                        *)
(***************************************************************************)
C8_OneFirstSight ==
    \A t, u \in Checkers :
        (/\ t # u
         /\ rTask[t].pc = "done"
         /\ rTask[u].pc = "done"
         /\ rTask[t].nonce = rTask[u].nonce
         /\ rTask[t].insAt = -1
         /\ rTask[u].insAt = -1)
            => ~(rTask[t].result = FALSE /\ rTask[u].result = FALSE)

(***************************************************************************)
(* The rate limiter (internal/server/security.go, RateLimiter), created by *)
(* NewSecurity with a window of one second.  Allow runs under the mutex,   *)
(* so it is one step.                                                      *)
(***************************************************************************)
MaxLimit == 2

MaxRateSeconds == 3

RateWindow == TicksPerSecond

Limits == 0..MaxLimit

IPs == {"10.0.0.1", "10.0.0.2"}

NoCounter == [ok |-> FALSE, count |-> 0, windowStart |-> 0]

\* a limiter that denies only above the limit
OverLimitStrict(count, limit) == count > limit

\* c.count >= rl.limit
OverLimit(count, limit) == count >= limit

\* !ok || now.Sub(c.windowStart) >= rl.window
NewWindowStrict(c, t) == ~c.ok \/ t - c.windowStart > RateWindow

NewWindow(c, t) == ~c.ok \/ t - c.windowStart >= RateWindow

\* RateLimiter.Allow: the counter after the call, and the answer
Allow(c, t, limit) ==
    IF NewWindow(c, t)
    THEN [counter |-> [ok |-> TRUE, count |-> 1, windowStart |-> t], res |-> TRUE]
    ELSE IF OverLimit(c.count, limit)
         THEN [counter |-> c, res |-> FALSE]
         ELSE [counter |-> [c EXCEPT !.count = c.count + 1], res |-> TRUE]

\* the admission times not older than one second at time t
Recent(times, t) == SelectSeq(times, LAMBDA a : t - a < RateWindow)

RateInit ==
    /\ now = 0
    /\ lLimit \in Limits
    /\ lCounters = [ip \in IPs |-> NoCounter]
    /\ lCleaned = 0
    /\ lRecent = [ip \in IPs |-> <<>>]
    /\ lLast = <<>>

RateTick ==
    /\ now < MaxRateSeconds * TicksPerSecond
    /\ now' = now + 1
    /\ lRecent' = [ip \in IPs |-> Recent(lRecent[ip], now')]
    /\ UNCHANGED <<lLimit, lCounters, lCleaned, lLast>>

RateAllow ==
    /\ \E ip \in IPs :
          LET r == Allow(lCounters[ip], now, lLimit)
          IN  /\ lCounters' = [lCounters EXCEPT ![ip] = r.counter]
              /\ lRecent' = [lRecent EXCEPT ![ip] =
                                IF r.res THEN Append(lRecent[ip], now) ELSE lRecent[ip]]
              /\ lLast' = [ip |-> ip, at |-> now, res |-> r.res]
    /\ UNCHANGED <<now, lLimit, lCleaned>>

\* a cleanup that deletes every counter, whatever its age
RateCleanupEager ==
    /\ now - lCleaned >= 2 * RateWindow
    /\ lCounters' = [ip \in IPs |-> NoCounter]
    /\ lCleaned' = now
    /\ UNCHANGED <<now, lLimit, lRecent, lLast>>

\* one tick of cleanup's ticker (period 2 * window)
RateCleanup ==
    /\ now - lCleaned >= 2 * RateWindow
    /\ lCounters' = [ip \in IPs |->
                        IF lCounters[ip].ok
                               /\ now - lCounters[ip].windowStart >= 2 * RateWindow
                        THEN NoCounter ELSE lCounters[ip]]
    /\ lCleaned' = now
    /\ UNCHANGED <<now, lLimit, lRecent, lLast>>

RateNext ==
    \/ RateTick /\ UNCHANGED <<codecVars, wireVars, cipherVars, replayVars, tunnelVars, extraVars>>
    \/ RateAllow /\ UNCHANGED <<codecVars, wireVars, cipherVars, replayVars, tunnelVars, extraVars>>
    \/ RateCleanup /\ UNCHANGED <<codecVars, wireVars, cipherVars, replayVars, tunnelVars, extraVars>>

\* the state after construction: the other components are idle
RateStart ==
    /\ RateInit
    /\ CodecIdle
    /\ WireIdle
    /\ CipherIdle
    /\ ReplayIdle
    /\ TunnelIdle
    /\ ExtraIdle

SpecRate == RateStart /\ [][RateNext]_vars

\* the limit in effect: a new window admits its first call whatever the limit
EffectiveLimit == IF lLimit >= 1 THEN lLimit ELSE 1

\* the calls of ip admitted since the start of its current limiter window
AdmittedInWindow(ip) ==
    Len(SelectSeq(lRecent[ip], LAMBDA a : a >= lCounters[ip].windowStart))

(***************************************************************************)
(* C10 as stated: for any IP and any limit L, the number of Allow calls    *)
(* admitted within any interval of one second is at most L.                *)
(***************************************************************************)
C10_AnySecondAtMostL ==
    \A ip \in IPs : Len(lRecent[ip]) <= lLimit

(***************************************************************************)
(* C10 amended: for any IP and limit L, the number of Allow calls admitted *)
(* within one limiter window (the second that starts with the first call   *)
(* admitted after the previous window ended) is at most max(L, 1); within  *)
(* an arbitrary half-open interval of one second it is at most             *)
(* 2 * max(L, 1) - 1.                                                      *)
(***************************************************************************)
C10_FixedWindowAtMostL ==
    \A ip \in IPs :
        /\ lCounters[ip].ok /\ now - lCounters[ip].windowStart < RateWindow
               => AdmittedInWindow(ip) <= EffectiveLimit
        /\ Len(lRecent[ip]) <= 2 * EffectiveLimit - 1

C10_Witness ==
    /\ lLimit = MaxLimit
    /\ lLast # <<>>
    /\ lLast.res = FALSE
    /\ lLast.at = now
    /\ AdmittedInWindow(lLast.ip) = lLimit
    /\ Len(lRecent[lLast.ip]) = 2 * lLimit - 1

(* An Allow call: the step that changes a counter or the record of the     *)
(* last call while neither the clock nor the sweep moves.                  *)
AllowStep ==
    /\ now' = now
    /\ lCleaned' = lCleaned
    /\ lLimit' = lLimit
    /\ lLast' # <<>>
    /\ lLast' # lLast \/ lCounters' # lCounters

(* C11: with a limit L >= 1, a call for an IP that has no entry, or whose  *)
(* window has elapsed, is admitted and leaves the count at 1 in a window   *)
(* that starts now; a call inside the window is admitted while fewer than  *)
(* L calls were admitted in this window, and is denied, leaving the        *)
(* counters unchanged, once L calls were admitted.                         *)
C11_WindowAdmitsLThenDenies ==
    [][AllowStep /\ lLimit >= 1 =>
        \E ip \in {lLast'.ip} :
            IF ~lCounters[ip].ok \/ now - lCounters[ip].windowStart >= RateWindow
            THEN /\ lLast'.res
                 /\ lCounters'[ip] = [ok |-> TRUE, count |-> 1, windowStart |-> now]
            ELSE IF AdmittedInWindow(ip) < lLimit
            THEN /\ lLast'.res
                 /\ lCounters'[ip].count = AdmittedInWindow(ip) + 1
                 /\ lCounters'[ip].windowStart = lCounters[ip].windowStart
            ELSE /\ ~lLast'.res
                 /\ lCounters' = lCounters
                 /\ lCounters[ip].count = lLimit]_vars

(* The first call after a full window was admitted with the count reset,   *)
(* less than a second after the last admission of the window before it.    *)
C11_Witness ==
    /\ lLimit = MaxLimit
    /\ lLast # <<>>
    /\ lLast.res
    /\ lLast.at = now
    /\ now >= RateWindow
    /\ lCounters[lLast.ip] = [ok |-> TRUE, count |-> 1, windowStart |-> now]
    /\ Len(lRecent[lLast.ip]) = lLimit

(***************************************************************************)
(* Message helpers (the dns package) and the tunnel's message forms.       *)
(***************************************************************************)
RcodeNoError == 0
RcodeFormatError == 1
RcodeServerFail == 2
RcodeNameError == 3

FlagQR == 32768
FlagAA == 1024
FlagRD == 256

\* flags | bit
SetBit(flags, bit) == IF (flags \div bit) % 2 = 1 THEN flags ELSE flags + bit

Opcode(m) == (m.Flags \div 2048) % 16

Rcode(m) == m.Flags % 16

IsResponse(m) == (m.Flags \div FlagQR) % 2 = 1

SetRcode(m, rcode) == [m EXCEPT !.Flags = (m.Flags - (m.Flags % 16)) + (rcode % 16)]

\* a response that does not take the query's ID
CreateResponseNoID(query) ==
    [ID |-> 0, Flags |-> FlagQR, Question |-> query.Question,
     Answer |-> <<>>, Authority |-> <<>>, Additional |-> <<>>]

CreateResponse(query) ==
    [ID |-> query.ID, Flags |-> FlagQR, Question |-> query.Question,
     Answer |-> <<>>, Authority |-> <<>>, Additional |-> <<>>]

AddEDNS0(m, udpSize) ==
    [m EXCEPT !.Additional =
        Append(@, [Name |-> <<>>, Type |-> RRTypeOPT, Class |-> udpSize, TTL |-> 0,
                   Data |-> <<>>])]

RECURSIVE FirstOPTClass(_)
FirstOPTClass(rrs) ==
    IF rrs = <<>> THEN 0
    ELSE IF Head(rrs).Type = RRTypeOPT THEN Head(rrs).Class
    ELSE FirstOPTClass(Tail(rrs))

GetEDNS0Size(m) == FirstOPTClass(m.Additional)

RECURSIVE EncodeTXTData(_)
EncodeTXTData(data) ==
    IF Len(data) > 255
    THEN <<255>> \o Slice(data, 1, 255) \o EncodeTXTData(Slice(data, 256, Len(data)))
    ELSE <<Len(data)>> \o data

\* DecodeTXTData: [err, data]
RECURSIVE DecodeTXTLoop(_, _)
DecodeTXTLoop(data, acc) ==
    IF data = <<>> THEN [err |-> "", data |-> acc]
    ELSE IF Len(data) - 1 < data[1] THEN [err |-> "ErrUnexpectedEOF", data |-> <<>>]
    ELSE DecodeTXTLoop(Slice(data, data[1] + 2, Len(data)),
                       acc \o Slice(data, 2, data[1] + 1))

DecodeTXTDataFirstString(data) ==
    IF data = <<>> THEN [err |-> "", data |-> <<>>]
    ELSE IF Len(data) - 1 < data[1] THEN [err |-> "ErrUnexpectedEOF", data |-> <<>>]
    ELSE [err |-> "", data |-> Slice(data, 2, data[1] + 1)]

DecodeTXTData(data) == DecodeTXTLoop(data, <<>>)

\* ExtractQueryPayload: [err, clientID, payload]
ExtractQueryPayload(msg, domain) ==
    IF IsResponse(msg) \/ Len(msg.Question) # 1
    THEN [err |-> "ErrInvalidQuery", clientID |-> <<>>, payload |-> <<>>]
    ELSE IF msg.Question[1].Type \notin {RRTypeTXT, RRTypeA, RRTypeAAAA}
    THEN [err |-> "ErrInvalidQuery", clientID |-> <<>>, payload |-> <<>>]
    ELSE DecodePayload(msg.Question[1].Name, domain)

\* the answer loop of ExtractResponsePayload
RECURSIVE FirstTXTPayload(_, _)
FirstTXTPayload(rrs, domain) ==
    IF rrs = <<>> THEN [err |-> "ErrNoAnswer", payload |-> <<>>]
    ELSE IF Head(rrs).Type # RRTypeTXT THEN FirstTXTPayload(Tail(rrs), domain)
    ELSE IF ~TrimSuffix(Head(rrs).Name, domain).ok THEN FirstTXTPayload(Tail(rrs), domain)
    ELSE IF DecodeTXTData(Head(rrs).Data).err # "" THEN FirstTXTPayload(Tail(rrs), domain)
    ELSE [err |-> "", payload |-> DecodeTXTData(Head(rrs).Data).data]

\* ExtractResponsePayload: [err, payload]
ExtractResponsePayload(msg, domain) ==
    IF ~IsResponse(msg) \/ Rcode(msg) # RcodeNoError
    THEN [err |-> "ErrInvalidResponse", payload |-> <<>>]
    ELSE FirstTXTPayload(msg.Answer, domain)

\* a tunnel response that leaves AA clear
CreateTunnelResponseNoAA(query, domain, payload, ttl) ==
    [err |-> "",
     msg |-> [CreateResponse(query) EXCEPT
                 !.Answer = <<[Name |-> query.Question[1].Name,
                               Type |-> RRTypeTXT, Class |-> ClassIN,
                               TTL |-> ttl, Data |-> EncodeTXTData(payload)]>>]]

\* CreateTunnelResponse: [err, msg]
CreateTunnelResponse(query, domain, payload, ttl) ==
    IF Len(query.Question) # 1 THEN [err |-> "ErrInvalidQuery", msg |-> NoMessage]
    ELSE LET resp == [CreateResponse(query) EXCEPT
                         !.Flags = SetBit(@, FlagAA),
                         !.Answer = <<[Name |-> query.Question[1].Name,
                                       Type |-> RRTypeTXT, Class |-> ClassIN,
                                       TTL |-> ttl, Data |-> EncodeTXTData(payload)]>>]
         IN  [err |-> "",
              msg |-> IF GetEDNS0Size(query) > 0
                      THEN AddEDNS0(resp, GetEDNS0Size(query)) ELSE resp]

CreateErrorResponse(query, domain, rcode) ==
    LET resp == SetRcode(CreateResponse(query), rcode)
        auth == IF Len(query.Question) = 1
                      /\ TrimSuffix(query.Question[1].Name, domain).ok
                THEN [resp EXCEPT !.Flags = SetBit(@, FlagAA)] ELSE resp
    IN  IF GetEDNS0Size(query) > 0 THEN AddEDNS0(auth, GetEDNS0Size(query)) ELSE auth

\* ValidateQuery: the error, "" when valid
ValidateQuery(msg, domain, minEDNSSize) ==
    IF IsResponse(msg) THEN "ErrInvalidQuery"
    ELSE IF Opcode(msg) # 0 THEN "unsupported opcode"
    ELSE IF Len(msg.Question) # 1 THEN "query must have exactly one question"
    ELSE IF ~TrimSuffix(msg.Question[1].Name, domain).ok THEN "ErrNotAuthoritative"
    ELSE IF minEDNSSize > 0 /\ GetEDNS0Size(msg) < minEDNSSize
    THEN "EDNS0 payload size too small"
    ELSE ""

(***************************************************************************)
(* The tunnel: the client resolver (internal/client/resolver.go), its      *)
(* transport, the server handler and the server's upstream resolver        *)
(* (internal/server/resolver.go), as functions of the bytes they receive   *)
(* and of the values they draw (counter, random bytes, clock).             *)
(***************************************************************************)
EDNSClientSize == 4096
ConfigMaxUDPSize == 1232
ConfigResponseTTL == 60
ConfigRateLimit == 100

TunnelDomain == DomainTunnel

TunnelClientID == Fill(171, ClientIDSize)

ClientCipher == NewCipher(tSecret.client, TRUE)

ServerCipher == NewCipher(tSecret.server, FALSE)

\* Resolver.processTunneledQuery up to the transport: [err, data]
processTunneledQuerySend(query, counter, random, t, queryID, randByte) ==
    Only([originalData \in {Marshal(query)} |->
      IF originalData.err # "" THEN [err |-> originalData.err, data |-> <<>>]
      ELSE
    Only([encryptedQuery \in {Encrypt(ClientCipher, counter, random, t,
                                      originalData.data)} |->
    Only([tunnelName \in {EncodePayload(encryptedQuery, TunnelClientID, TunnelDomain,
                                        randByte, randByte)} |->
      IF tunnelName.err # "" THEN [err |-> tunnelName.err, data |-> <<>>]
      ELSE Marshal(AddEDNS0([ID |-> queryID, Flags |-> FlagRD,
                             Question |-> <<[Name |-> tunnelName.name,
                                             Type |-> RRTypeTXT,
                                             Class |-> ClassIN]>>,
                             Answer |-> <<>>, Authority |-> <<>>,
                             Additional |-> <<>>], EDNSClientSize))])])])

\* Resolver.processTunneledQuery from the transport's answer on: [err, response]
processTunneledQueryReceive(query, respData) ==
    Only([tunnelResp \in {ParseMessage(respData)} |->
      IF tunnelResp.err # "" THEN [err |-> tunnelResp.err, response |-> NoMessage]
      ELSE IF Rcode(tunnelResp.msg) # RcodeNoError
      THEN [err |-> "tunnel response error", response |-> NoMessage]
      ELSE
    Only([payload \in {ExtractResponsePayload(tunnelResp.msg, TunnelDomain)} |->
      IF payload.err # "" THEN [err |-> payload.err, response |-> NoMessage]
      ELSE
    Only([decryptedResp \in {DecryptWithoutTimestamp(ClientCipher, payload.payload)} |->
      IF decryptedResp.err # ""
      THEN [err |-> decryptedResp.err, response |-> NoMessage]
      ELSE
    Only([response \in {ParseMessage(decryptedResp.plaintext)} |->
      IF response.err # "" THEN [err |-> response.err, response |-> NoMessage]
      ELSE [err |-> "", response |-> [response.msg EXCEPT !.ID = query.ID]]])])])])

\* an error reply that is always SERVFAIL
clientSendErrorServFail(query, rcode) ==
    Marshal(SetRcode(CreateResponse(query), RcodeServerFail)).data

\* Resolver.sendError (client): the datagram written, <<>> when none
clientSendError(query, rcode) ==
    Marshal(SetRcode(CreateResponse(query), rcode)).data

\* The upstream recursive resolver's answer to a query, as bytes on the wire:
\* the query's ID and question, then
\*   "a"      one A record whose owner is a pointer to the question name;
\*   "cname"  a CNAME whose target ends in a pointer into the question name,
\*            in a message that carries another ID than the query's;
\*   "chain"  three CNAMEs, each owner a pointer to the previous target, the
\*            last target ending in a pointer into the second target;
\*   "big"    one TXT record of 297 bytes of RDATA;
\*   "huge"   one TXT record of 1280 bytes of RDATA
\* (every name compressed against its first earlier occurrence).
UpstreamKinds == {"a", "cname", "chain", "timeout"}

UpstreamResponse(queryData, kind) ==
    LET qEnd == readQuestion(queryData, 12).pos
        question == Slice(queryData, 13, qEnd)
        id == IF kind = "cname"
              THEN U16((ReadUint(queryData, 0, 2).v + 1) % 65536)
              ELSE Slice(queryData, 1, 2)
        hdr(an) == id \o U16(33152) \o U16(1) \o U16(an)
                       \o U16(0) \o U16(0)
        rr(owner, type, data) == owner \o U16(type) \o U16(ClassIN) \o U32(300)
                                     \o U16(Len(data)) \o data
        ptr(off) == U16(49152 + off)
        cname1 == rr(ptr(12), 5, <<1, 120, 1, 98, 0>>)
        target1 == qEnd + 12
        cname2 == rr(ptr(target1), 5, <<1, 121, 1, 99, 0>>)
        target2 == target1 + 5 + 12
    IN  IF kind = "a"
        THEN hdr(1) \o question \o rr(ptr(12), RRTypeA, <<192, 0, 2, queryData[14]>>)
        ELSE IF kind = "big"
        THEN hdr(1) \o question
                 \o rr(ptr(12), RRTypeTXT,
                       <<255>> \o Fill(120, 255) \o <<40>> \o Fill(121, 40))
        ELSE IF kind = "huge"
        THEN hdr(1) \o question
                 \o rr(ptr(12), RRTypeTXT,
                       <<255>> \o Fill(120, 255) \o <<255>> \o Fill(121, 255)
                           \o <<255>> \o Fill(122, 255) \o <<255>> \o Fill(123, 255)
                           \o <<255>> \o Fill(124, 255))
        ELSE IF kind = "cname"
        THEN hdr(1) \o question \o rr(ptr(12), 5, <<1, 120>> \o ptr(14))
        ELSE hdr(3) \o question \o cname1 \o cname2
                 \o rr(ptr(target2), 5, <<1, 122>> \o ptr(target2 + 2))

\* server Resolver.Resolve: [err, response, raw]
Resolve(query, kind) ==
    Only([queryData \in {Marshal(query)} |->
      IF queryData.err # ""
      THEN [err |-> queryData.err, response |-> NoMessage, raw |-> <<>>]
      ELSE IF kind = "timeout"
      THEN [err |-> "failed to read response", response |-> NoMessage, raw |-> <<>>]
      ELSE
    Only([respData \in {UpstreamResponse(queryData.data, kind)} |->
    Only([response \in {ParseMessage(respData)} |->
      IF response.err # ""
      THEN [err |-> response.err, response |-> NoMessage, raw |-> respData]
      ELSE [err |-> "", response |-> [response.msg EXCEPT !.ID = query.ID],
            raw |-> respData]])])])

\* varyTTL with the byte of the clock it reads
varyTTL(baseTTL, b) ==
    IF b % 2 = 0 /\ baseTTL > b % 60
    THEN baseTTL - ((b % 60) \div 2)
    ELSE baseTTL + ((b % 60) \div 2)

\* Handler.processTunnelQuery: [err, msg] and what it did on the way:
\* opened (the envelope decrypted), nonce, resolved (the upstream answered),
\* raw (the upstream's bytes), sealed (a counter value was taken)
processTunnelQuery(query, t, kind, counter, random, ttlByte) ==
    Only([none \in {[err |-> "", msg |-> NoMessage, opened |-> FALSE, nonce |-> <<>>,
          resolved |-> FALSE, raw |-> <<>>, sealed |-> FALSE, envelope |-> <<>>]} |->
    Only([ex \in {ExtractQueryPayload(query, TunnelDomain)} |->
      IF ex.err # "" THEN [none EXCEPT !.err = ex.err]
      ELSE
    Only([decryptedQuery \in {Decrypt(ServerCipher, ex.payload, t)} |->
      IF decryptedQuery.err # "" THEN [none EXCEPT !.err = decryptedQuery.err]
      ELSE
    Only([opened \in {[none EXCEPT !.opened = TRUE,
                                   !.nonce = Slice(ex.payload, 1, NonceSize)]} |->
    Only([originalQuery \in {ParseMessage(decryptedQuery.plaintext)} |->
      IF originalQuery.err # "" THEN [opened EXCEPT !.err = originalQuery.err]
      ELSE
    Only([dnsResponse \in {Resolve(originalQuery.msg, kind)} |->
      IF dnsResponse.err # "" THEN [opened EXCEPT !.err = dnsResponse.err]
      ELSE
    Only([resolved \in {[opened EXCEPT !.resolved = TRUE, !.raw = dnsResponse.raw]} |->
    Only([responseData \in {Marshal(dnsResponse.response)} |->
      IF responseData.err # "" THEN [resolved EXCEPT !.err = responseData.err]
      ELSE
    Only([encryptedResponse \in {EncryptWithoutTimestamp(ServerCipher, counter, random,
                                                         responseData.data)} |->
    Only([response \in {CreateTunnelResponse(query, TunnelDomain, encryptedResponse,
                              varyTTL(ConfigResponseTTL, ttlByte))} |->
      [resolved EXCEPT !.err = response.err, !.msg = response.msg,
                       !.sealed = TRUE, !.envelope = encryptedResponse]])])])])])])])])])])

\* an error reply that is always SERVFAIL
serverSendErrorServFail(query, rcode) ==
    Marshal(CreateErrorResponse(query, TunnelDomain, RcodeServerFail)).data

\* Handler.sendError: the datagram written
serverSendError(query, rcode) ==
    Marshal(CreateErrorResponse(query, TunnelDomain, rcode)).data

\* a truncation that cuts and leaves the flags alone
TruncateNoFlag(respData) ==
    IF Len(respData) > ConfigMaxUDPSize
    THEN SubSeq(respData, 1, ConfigMaxUDPSize)
    ELSE respData

\* the truncation of Handler.handleQuery
Truncate(respData) ==
    IF Len(respData) > ConfigMaxUDPSize
    THEN [i \in 1..ConfigMaxUDPSize |->
             IF i = 3 THEN SetBit(respData[3], 2) ELSE respData[i]]
    ELSE respData

\* Handler.handleQuery: the datagram written back (<<>> when none) and what
\* processTunnelQuery did
handleQuery(data, t, kind, counter, random, ttlByte) ==
    Only([none \in {[reply |-> <<>>, opened |-> FALSE, nonce |-> <<>>, resolved |-> FALSE,
          raw |-> <<>>, sealed |-> FALSE, envelope |-> <<>>]} |->
    Only([query \in {ParseMessage(data)} |->
      IF query.err # "" \/ IsResponse(query.msg) THEN none
      ELSE
    Only([invalid \in {ValidateQuery(query.msg, TunnelDomain, ConfigMaxUDPSize)} |->
      IF invalid # ""
      THEN [none EXCEPT !.reply =
                serverSendError(query.msg,
                                IF invalid = "ErrNotAuthoritative"
                                THEN RcodeNameError ELSE RcodeFormatError)]
      ELSE
    Only([r \in {processTunnelQuery(query.msg, t, kind, counter, random, ttlByte)} |->
    Only([did \in {[reply |-> <<>>, opened |-> r.opened, nonce |-> r.nonce,
          resolved |-> r.resolved, raw |-> r.raw, sealed |-> r.sealed,
          envelope |-> r.envelope]} |->
      IF r.err # ""
      THEN [did EXCEPT !.reply = serverSendError(query.msg, RcodeServerFail)]
      ELSE
    Only([respData \in {Marshal(r.msg)} |->
      IF respData.err # "" THEN did
      ELSE [did EXCEPT !.reply = Truncate(respData.data)]])])])])])])

(***************************************************************************)
(* The tunnel's specification.  Each exchange is one application query     *)
(* arriving at the client resolver; the transport sends the tunnel query   *)
(* through every resolver, each on a socket of its own; the server handles *)
(* every datagram that reaches it; the client takes the first answer that  *)
(* arrives on one of the exchange's sockets, or times out.                 *)
(***************************************************************************)
MaxExchanges == 2

Exchanges == 1..MaxExchanges

MaxDuplicates == 1

Resolvers == {"r1"}

ResolverIP(r) == IF r = "r1" THEN "10.0.0.1" ELSE "10.0.0.2"

\* CreateQuery
CreateQuery(name, qtype, id) ==
    [ID |-> id, Flags |-> FlagRD,
     Question |-> <<[Name |-> name, Type |-> qtype, Class |-> ClassIN]>>,
     Answer |-> <<>>, Authority |-> <<>>, Additional |-> <<>>]

NameWA == <<<<119>>, <<97>>>>

NameVB == <<<<118>>, <<98>>>>

\* what the applications send: two one-question queries with the same ID, and
\* a query with two questions
AppDatagrams ==
    {Marshal(CreateQuery(NameWA, RRTypeA, 4660)).data,
     Marshal(CreateQuery(NameVB, RRTypeA, 4660)).data,
     Marshal([CreateQuery(NameWA, RRTypeA, 4661) EXCEPT
                 !.Question = @ \o @]).data}

TunnelQueryIDs == {43981}

TTLBytes == {121}

IdleExchange ==
    [stage |-> "idle", query |-> <<>>, nonce |-> <<>>, reply |-> <<>>, ok |-> FALSE,
     from |-> <<>>, since |-> 0, at |-> 0]

TunnelInit ==
    /\ now = 0
    /\ kCounter = [r \in Roles |-> 0]
    /\ kEnv = <<>>
    /\ kOpen = <<>>
    /\ kTask = <<>>
    /\ kIssued = <<>>
    /\ kNonces = <<>>
    /\ lLimit = ConfigRateLimit
    /\ lCounters = [ip \in IPs |-> NoCounter]
    /\ lCleaned = 0
    /\ lRecent = <<>>
    /\ lLast = <<>>
    /\ tApp = [e \in Exchanges |-> IdleExchange]
    /\ tNet = {}
    /\ tBack = {}
    /\ tLog = {}
    /\ tDups = 0
    /\ tSecret = [client |-> SharedSecret, server |-> SharedSecret]

Finished(data, reply, ok, from) ==
    [stage |-> "done", query |-> data, nonce |-> <<>>, reply |-> reply, ok |-> ok,
     from |-> from, since |-> now, at |-> now]

\* the client's acceptLoop and handleQuery, up to the datagrams the transport sends
ClientAccept(e) ==
    /\ tApp[e].stage = "idle"
    /\ \E data \in AppDatagrams, random \in {e}, queryID \in TunnelQueryIDs :
          \E query \in {ParseMessage(data)}, counter \in {AtomicAdd(kCounter["client"])} :
          \E snd \in {processTunneledQuerySend(query.msg, counter, random, now,
                                                queryID, 0)} :
              IF query.err # "" \/ IsResponse(query.msg)
              THEN /\ tApp' = [tApp EXCEPT ![e] = Finished(data, <<>>, FALSE, <<>>)]
                   /\ UNCHANGED <<kCounter, tNet>>
              ELSE IF Len(query.msg.Question) # 1
              THEN /\ tApp' = [tApp EXCEPT ![e] =
                                  Finished(data, clientSendError(query.msg, RcodeFormatError),
                                           FALSE, <<>>)]
                   /\ UNCHANGED <<kCounter, tNet>>
              ELSE /\ kCounter' = [kCounter EXCEPT !["client"] = counter]
                   /\ IF snd.err # ""
                      THEN /\ tApp' = [tApp EXCEPT ![e] =
                                          Finished(data,
                                                   clientSendError(query.msg, RcodeServerFail),
                                                   FALSE, <<>>)]
                           /\ UNCHANGED tNet
                      ELSE /\ tApp' = [tApp EXCEPT ![e] =
                                          [stage |-> "waiting", query |-> data,
                                           nonce |-> Nonce(counter, random),
                                           reply |-> <<>>, ok |-> FALSE, from |-> <<>>,
                                           since |-> now, at |-> 0]]
                           /\ tNet' = tNet \cup {[sock |-> <<e, r>>, data |-> snd.data,
                                                     copies |-> 1] :
                                                    r \in Resolvers}
    /\ UNCHANGED <<now, kEnv, kOpen, kTask, kIssued, kNonces, rateVars, tBack, tLog, tDups,
                   tSecret>>

\* the first datagram read on one of the exchange's sockets, and the rest of
\* the client's handleQuery
ClientReceive(e) ==
    /\ tApp[e].stage = "waiting"
    /\ \E d \in tBack :
          /\ d.sock[1] = e
          /\ \E query \in {ParseMessage(tApp[e].query).msg} :
             \E r \in {processTunneledQueryReceive(query, d.data)} :
             \E respData \in {Marshal(r.response)} :
                tApp' = [tApp EXCEPT ![e] =
                            IF r.err # ""
                            THEN [Finished(tApp[e].query,
                                           clientSendError(query, RcodeServerFail),
                                           FALSE, d.log)
                                     EXCEPT !.nonce = tApp[e].nonce, !.since = tApp[e].since]
                            ELSE [Finished(tApp[e].query, respData.data,
                                           respData.err = "", d.log)
                                     EXCEPT !.nonce = tApp[e].nonce, !.since = tApp[e].since]]
    /\ tBack' = {x \in tBack : x.sock[1] # e}
    /\ UNCHANGED <<now, cipherVars, rateVars, tNet, tLog, tDups, tSecret>>

\* the transport's deadline passes with no datagram read
ClientTimeout(e) ==
    /\ tApp[e].stage = "waiting"
    /\ tApp' = [tApp EXCEPT ![e] =
                   [Finished(tApp[e].query,
                             clientSendError(ParseMessage(tApp[e].query).msg,
                                             RcodeServerFail), FALSE, <<>>)
                       EXCEPT !.nonce = tApp[e].nonce, !.since = tApp[e].since]]
    /\ tBack' = {x \in tBack : x.sock[1] # e}
    /\ UNCHANGED <<now, cipherVars, rateVars, tNet, tLog, tDups, tSecret>>

\* the server's acceptLoop and handleQuery on one datagram, the upstream
\* answering in one of the given ways
ServerHandleWith(kinds) ==
    /\ \E d \in tNet :
       \E allowed \in {Allow(lCounters[ResolverIP(d.sock[2])], now, lLimit)} :
          /\ tNet' = IF d.copies = 1 THEN tNet \ {d}
                     ELSE (tNet \ {d}) \cup {[d EXCEPT !.copies = 1]}
          /\ lCounters' = [lCounters EXCEPT ![ResolverIP(d.sock[2])] = allowed.counter]
          /\ IF ~allowed.res
             THEN UNCHANGED <<kCounter, tBack, tLog>>
             ELSE \E kind \in kinds, random \in {0}, ttlByte \in TTLBytes :
                  \E h \in {handleQuery(d.data, now, kind, AtomicAdd(kCounter["server"]),
                                        random, ttlByte)} :
                  \E entry \in {[nonce |-> h.nonce, resolved |-> h.resolved,
                                 raw |-> h.raw,
                                 rcode |-> Rcode(ParseMessage(h.reply).msg),
                                 again |-> \E x \in tLog : x.nonce = h.nonce]} :
                     /\ kCounter' = IF h.sealed
                                    THEN [kCounter EXCEPT
                                             !["server"] = AtomicAdd(kCounter["server"])]
                                    ELSE kCounter
                     /\ tLog' = IF h.opened THEN tLog \cup {entry} ELSE tLog
                     /\ tBack' = IF h.reply # <<>> /\ tApp[d.sock[1]].stage = "waiting"
                                 THEN tBack \cup
                                          {[sock |-> d.sock, data |-> h.reply,
                                            log |-> IF h.opened THEN entry ELSE <<>>,
                                            query |-> d.data, envelope |-> h.envelope]}
                                 ELSE tBack
    /\ UNCHANGED <<now, kEnv, kOpen, kTask, kIssued, kNonces, lLimit, lCleaned, lRecent,
                   lLast, tApp, tDups, tSecret>>

ServerHandle == ServerHandleWith(UpstreamKinds)

\* the network (or a retransmitting resolver) delivers a datagram twice
NetDuplicate ==
    /\ tDups < MaxDuplicates
    /\ \E d \in tNet :
          /\ d.copies = 1
          /\ tNet' = (tNet \ {d}) \cup {[d EXCEPT !.copies = 2]}
    /\ tDups' = tDups + 1
    /\ UNCHANGED <<now, cipherVars, rateVars, tApp, tBack, tLog, tSecret>>

TunnelNext ==
    \/ \E e \in Exchanges :
          ClientAccept(e) /\ UNCHANGED <<codecVars, wireVars, replayVars, extraVars>>
    \/ \E e \in Exchanges :
          ClientReceive(e) /\ UNCHANGED <<codecVars, wireVars, replayVars, extraVars>>
    \/ \E e \in Exchanges :
          ClientTimeout(e) /\ UNCHANGED <<codecVars, wireVars, replayVars, extraVars>>
    \/ ServerHandle /\ UNCHANGED <<codecVars, wireVars, replayVars, extraVars>>
    \/ NetDuplicate /\ UNCHANGED <<codecVars, wireVars, replayVars, extraVars>>

\* the state after construction: the other components are idle
TunnelStart ==
    /\ TunnelInit
    /\ CodecIdle
    /\ WireIdle
    /\ ReplayIdle
    /\ ExtraIdle

SpecTunnel == TunnelStart /\ [][TunnelNext]_vars

\* the tunnel when the upstream's answer may be too large for one datagram
TruncKinds == {"a", "huge"}

TruncNext ==
    \/ \E e \in Exchanges :
          ClientAccept(e) /\ UNCHANGED <<codecVars, wireVars, replayVars, extraVars>>
    \/ \E e \in Exchanges :
          ClientReceive(e) /\ UNCHANGED <<codecVars, wireVars, replayVars, extraVars>>
    \/ \E e \in Exchanges :
          ClientTimeout(e) /\ UNCHANGED <<codecVars, wireVars, replayVars, extraVars>>
    \/ ServerHandleWith(TruncKinds)
          /\ UNCHANGED <<codecVars, wireVars, replayVars, extraVars>>
    \/ NetDuplicate /\ UNCHANGED <<codecVars, wireVars, replayVars, extraVars>>

SpecTrunc == TunnelStart /\ [][TruncNext]_vars

(***************************************************************************)
(* What an application reads in a DNS message: the header, the questions   *)
(* and the records, with the name in the RDATA of a CNAME record (type 5)  *)
(* read as RFC 1035 4.1.4 has it, compression pointers being offsets into  *)
(* the message the record is in.                                           *)
(***************************************************************************)
RECURSIVE ViewRRs(_, _, _, _)
ViewRRs(buf, pos, count, acc) ==
    IF count = 0 THEN acc
    ELSE LET r == readRR(buf, pos)
             target == readName(buf, r.pos - Len(r.rr.Data))
         IN  IF r.err # "" THEN Append(acc, "malformed")
             ELSE ViewRRs(buf, r.pos, count - 1,
                          Append(acc, [Name |-> r.rr.Name, Type |-> r.rr.Type,
                                       Class |-> r.rr.Class, TTL |-> r.rr.TTL,
                                       Data |-> IF r.rr.Type = 5
                                                THEN <<target.err, target.name>>
                                                ELSE r.rr.Data]))

AppView(buf) ==
    IF Len(buf) < 12 THEN [ID |-> 0, Flags |-> 0, Question |-> "malformed"]
    ELSE LET qs == readQuestions(buf, 12, ReadUint(buf, 4, 2).v, <<>>)
         IN  [ID |-> ReadUint(buf, 0, 2).v, Flags |-> ReadUint(buf, 2, 2).v,
              Question |-> IF qs.err # "" THEN "malformed" ELSE qs.items,
              Counts |-> <<ReadUint(buf, 6, 2).v, ReadUint(buf, 8, 2).v,
                           ReadUint(buf, 10, 2).v>>,
              RRs |-> IF qs.err # "" THEN <<>>
                      ELSE ViewRRs(buf, qs.pos,
                                   ReadUint(buf, 6, 2).v + ReadUint(buf, 8, 2).v
                                       + ReadUint(buf, 10, 2).v, <<>>)]

\* exchange e succeeded: the client sent the application a tunneled response
Succeeded(e) == tApp[e].stage = "done" /\ tApp[e].ok

\* the answer exchange e got was made for the envelope exchange e sealed
OwnAnswer(e) ==
    /\ tApp[e].from # <<>>
    /\ tApp[e].from.resolved
    /\ tApp[e].from.nonce = tApp[e].nonce

\* what the application of exchange e reads is what the upstream sent, but
\* for the ID
SameAsUpstream(e) ==
    AppView(tApp[e].reply)
        = [AppView(tApp[e].from.raw) EXCEPT !.ID = AppView(tApp[e].query).ID]

(***************************************************************************)
(* C1: whenever an exchange succeeds, the message the client sends to the  *)
(* application is the response the server's upstream returned for that     *)
(* exchange's inner query, unchanged except that its ID is the             *)
(* application's, and never the response of another exchange.              *)
(***************************************************************************)
C1_Refinement ==
    \A e \in Exchanges : Succeeded(e) => OwnAnswer(e) /\ SameAsUpstream(e)

(***************************************************************************)
(* C9: a tunneled query whose envelope nonce the server has already        *)
(* accepted is answered with SERVFAIL and is not resolved upstream again.  *)
(***************************************************************************)
C9_ReplayRejected ==
    \A x \in tLog : x.again => x.rcode = RcodeServerFail /\ ~x.resolved

(***************************************************************************)
(* The tunnel's error paths.  One exchange; the server's secret may differ *)
(* from the client's; the clock moves, the client's transport giving up at *)
(* its deadline; and the datagram on its way to the server may be replaced *)
(* by an outer query that is wrong in one way.                             *)
(***************************************************************************)
OtherSecret == 2

\* the client's Config.Timeout, in ticks
ConfigTimeout == 2 * TicksPerSecond

MaxTunnelSeconds == 3

ErrorKinds == {"a", "cname", "big", "timeout"}

ForgedID == 7

\* the outer query a client builds for a name
OuterQuery(name, flags, udpSize) ==
    Marshal(AddEDNS0([ID |-> ForgedID, Flags |-> flags,
                      Question |-> <<[Name |-> name, Type |-> RRTypeTXT,
                                      Class |-> ClassIN]>>,
                      Answer |-> <<>>, Authority |-> <<>>, Additional |-> <<>>],
                     udpSize)).data

\* the name EncodePayload makes of a frame buffer
PayloadName(raw) ==
    splitLabels(ToLower(B32Encode(raw)), MaxLabelLength) \o TunnelDomain

\* the name that carries an envelope
EnvelopeName(envelope) ==
    EncodePayload(envelope, TunnelClientID, TunnelDomain, 0, 0).name

\* an envelope sealed at clock t under the shared secret
SealedAt(t, plaintext) ==
    Encrypt(NewCipher(SharedSecret, TRUE), ForgedID, 0, t, plaintext)

InnerQuery == Marshal(CreateQuery(NameWA, RRTypeA, 4660)).data

GoodName == EnvelopeName(SealedAt(0, InnerQuery))

MalformedCauses == {"opcode", "noquestion", "twoquestions", "edns"}

CodecCauses == {"base32", "short", "frame"}

CryptoCauses == {"tamper", "future", "inner"}

FaultCauses == {"suffix"} \cup MalformedCauses \cup CodecCauses \cup CryptoCauses

\* for each cause, an outer query that is wrong in that way only
OuterFault ==
    [c \in FaultCauses |->
        CASE c = "suffix" -> OuterQuery(<<<<120>>, <<111, 114, 103>>>>, FlagRD, EDNSClientSize)
          [] c = "opcode" -> OuterQuery(GoodName, FlagRD + 2048, EDNSClientSize)
          [] c = "noquestion" ->
                Marshal(AddEDNS0([CreateQuery(GoodName, RRTypeTXT, ForgedID)
                                     EXCEPT !.Question = <<>>], EDNSClientSize)).data
          [] c = "twoquestions" ->
                Marshal(AddEDNS0([CreateQuery(GoodName, RRTypeTXT, ForgedID)
                                     EXCEPT !.Question = @ \o @], EDNSClientSize)).data
          [] c = "edns" -> OuterQuery(GoodName, FlagRD, 512)
          [] c = "base32" -> OuterQuery(<<<<49, 33>>>> \o TunnelDomain, FlagRD, EDNSClientSize)
          [] c = "short" -> OuterQuery(PayloadName(<<1, 2, 3>>), FlagRD, EDNSClientSize)
          [] c = "frame" -> OuterQuery(PayloadName(TunnelClientID \o <<5, 1>>), FlagRD,
                                       EDNSClientSize)
          [] c = "tamper" ->
                OuterQuery(EnvelopeName([SealedAt(0, InnerQuery) EXCEPT
                                            ![NonceSize + 1] = (@ + 1) % 256]),
                           FlagRD, EDNSClientSize)
          [] c = "future" ->
                OuterQuery(EnvelopeName(SealedAt((ClockSkewSeconds + MaxTunnelSeconds + 1)
                                                     * TicksPerSecond, InnerQuery)),
                           FlagRD, EDNSClientSize)
          [] OTHER -> OuterQuery(EnvelopeName(SealedAt(0, <<1, 2, 3>>)), FlagRD,
                                 EDNSClientSize)]

Forged(data) == \E c \in FaultCauses : data = OuterFault[c]

ErrorsInit ==
    /\ now = 0
    /\ kCounter = [r \in Roles |-> 0]
    /\ kEnv = <<>>
    /\ kOpen = <<>>
    /\ kTask = <<>>
    /\ kIssued = <<>>
    /\ kNonces = <<>>
    /\ lLimit = ConfigRateLimit
    /\ lCounters = [ip \in IPs |-> NoCounter]
    /\ lCleaned = 0
    /\ lRecent = <<>>
    /\ lLast = <<>>
    /\ tApp = [e \in Exchanges |->
                  IF e = 1 THEN IdleExchange ELSE [IdleExchange EXCEPT !.stage = "off"]]
    /\ tNet = {}
    /\ tBack = {}
    /\ tLog = {}
    /\ tDups = 0
    /\ \E secret \in {SharedSecret, OtherSecret} :
          tSecret = [client |-> SharedSecret, server |-> secret]

\* the clock moves by a second while an exchange is to come or in progress;
\* the transport's deadline fires before the clock passes it
TunnelTick ==
    /\ now < MaxTunnelSeconds * TicksPerSecond
    /\ \E e \in Exchanges : tApp[e].stage \in {"idle", "waiting"}
    /\ \A e \in Exchanges :
          tApp[e].stage = "waiting" => now < tApp[e].since + ConfigTimeout
    /\ now' = now + TicksPerSecond
    /\ UNCHANGED <<cipherVars, rateVars, tunnelVars>>

\* a datagram on its way to the server is replaced by a wrong outer query
NetForge ==
    /\ tDups < MaxDuplicates
    /\ \E d \in tNet, c \in FaultCauses :
          /\ d.copies = 1
          /\ tNet' = (tNet \ {d}) \cup {[d EXCEPT !.data = OuterFault[c]]}
    /\ tDups' = tDups + 1
    /\ UNCHANGED <<now, cipherVars, rateVars, tApp, tBack, tLog, tSecret>>

ErrorsNext ==
    \/ \E e \in Exchanges :
          ClientAccept(e) /\ UNCHANGED <<codecVars, wireVars, replayVars, extraVars>>
    \/ \E e \in Exchanges :
          ClientReceive(e) /\ UNCHANGED <<codecVars, wireVars, replayVars, extraVars>>
    \/ \E e \in Exchanges :
          ClientTimeout(e) /\ UNCHANGED <<codecVars, wireVars, replayVars, extraVars>>
    \/ ServerHandleWith(ErrorKinds)
          /\ UNCHANGED <<codecVars, wireVars, replayVars, extraVars>>
    \/ NetDuplicate /\ UNCHANGED <<codecVars, wireVars, replayVars, extraVars>>
    \/ NetForge /\ UNCHANGED <<codecVars, wireVars, replayVars, extraVars>>
    \/ TunnelTick /\ UNCHANGED <<codecVars, wireVars, replayVars, extraVars>>

ErrorsStart ==
    /\ ErrorsInit
    /\ CodecIdle
    /\ WireIdle
    /\ ReplayIdle
    /\ ExtraIdle

SpecErrors == ErrorsStart /\ [][ErrorsNext]_vars

\* the RCODE and the ID a datagram carries
WireRcode(data) == data[4] % 16

WireID(data) == data[1] * 256 + data[2]

\* the datagram parses as a query with n questions
QuestionCount(data) ==
    IF ParseMessage(data).err # "" \/ IsResponse(ParseMessage(data).msg)
    THEN -1
    ELSE Len(ParseMessage(data).msg.Question)

(* C13: with the client's and the server's ciphers derived from different *)
(* secrets, every one-question application query is answered by the        *)
(* client with SERVFAIL, never with NoError, and no later than the         *)
(* client's timeout after it arrived.                                      *)
C13_KeyMismatchServFail ==
    tSecret.client # tSecret.server =>
        \A e \in Exchanges :
            /\ tApp[e].stage = "waiting" => now <= tApp[e].since + ConfigTimeout
            /\ tApp[e].stage = "done" /\ QuestionCount(tApp[e].query) = 1 =>
                  /\ tApp[e].reply # <<>>
                  /\ WireRcode(tApp[e].reply) = RcodeServerFail
                  /\ ~tApp[e].ok
                  /\ tApp[e].at <= tApp[e].since + ConfigTimeout

(* under different secrets a one-question query was answered SERVFAIL      *)
(* after a second of waiting                                               *)
C13_Witness ==
    /\ tSecret.client # tSecret.server
    /\ \E e \in Exchanges :
          /\ tApp[e].stage = "done"
          /\ QuestionCount(tApp[e].query) = 1
          /\ WireRcode(tApp[e].reply) = RcodeServerFail
          /\ tApp[e].at = tApp[e].since + TicksPerSecond
          /\ kCounter["server"] = 0

(* C14: a parsed application query (QR=0) whose question count is not 1 is *)
(* answered FORMERR in the step that accepts it, and that step takes no    *)
(* cipher counter value and hands nothing to the transport.                *)
C14_FormErrWithoutTunnel ==
    [][\A e \in Exchanges :
          (/\ tApp[e].stage = "idle"
           /\ tApp'[e].stage # "idle"
           /\ QuestionCount(tApp'[e].query) \notin {-1, 1})
          => /\ tApp'[e].stage = "done"
             /\ tApp'[e].reply # <<>>
             /\ WireRcode(tApp'[e].reply) = RcodeFormatError
             /\ tApp'[e].nonce = <<>>
             /\ kCounter' = kCounter
             /\ tNet' = tNet
             /\ tBack' = tBack]_vars

(* a query with two questions was answered FORMERR, nothing sent           *)
C14_Witness ==
    \E e \in Exchanges :
        /\ tApp[e].stage = "done"
        /\ QuestionCount(tApp[e].query) = 2
        /\ WireRcode(tApp[e].reply) = RcodeFormatError
        /\ kCounter["client"] = 0
        /\ tNet = {}

(* C15: every datagram the client sends back to an application, answer or  *)
(* error, carries the ID of the application query it answers.              *)
C15_ReplyCarriesAppID ==
    \A e \in Exchanges :
        tApp[e].stage = "done" /\ tApp[e].reply # <<>> =>
            WireID(tApp[e].reply) = WireID(tApp[e].query)

(* a successful answer whose outer query, outer response and upstream      *)
(* response all carried other IDs than the application's                   *)
C15_Witness ==
    \E e \in Exchanges :
        /\ tApp[e].stage = "done"
        /\ tApp[e].ok
        /\ tApp[e].from # <<>>
        /\ tApp[e].from.resolved
        /\ WireID(tApp[e].from.raw) # WireID(tApp[e].query)
        /\ WireID(tApp[e].reply) = WireID(tApp[e].query)

\* the answers of the server on their way back, with the query each answers
Answers == tBack

(* C16: the server answers NXDOMAIN a one-question opcode-0 query whose    *)
(* name is outside the authoritative suffix; FORMERR a query with another  *)
(* opcode, a question count other than 1 or an EDNS(0) size below the      *)
(* minimum; SERVFAIL a query whose envelope fails to decrypt, fails the    *)
(* timestamp check, holds no DNS message, or whose upstream resolution     *)
(* fails.                                                                  *)
C16_ErrorRcodes ==
    \A b \in Answers :
        /\ b.query = OuterFault["suffix"] => WireRcode(b.data) = RcodeNameError
        /\ \A c \in MalformedCauses :
              b.query = OuterFault[c] => WireRcode(b.data) = RcodeFormatError
        /\ \A c \in CryptoCauses :
              b.query = OuterFault[c] => WireRcode(b.data) = RcodeServerFail
        /\ ~Forged(b.query) /\ tSecret.client # tSecret.server =>
              WireRcode(b.data) = RcodeServerFail
        /\ b.log # <<>> /\ ~b.log.resolved => WireRcode(b.data) = RcodeServerFail
        /\ WireRcode(b.data) = RcodeNoError => b.log # <<>> /\ b.log.resolved

(* the server has answered SERVFAIL a future-dated envelope                 *)
C16_Witness ==
    \E b \in Answers :
        /\ b.query = OuterFault["future"]
        /\ WireRcode(b.data) = RcodeServerFail
        /\ tSecret.client = tSecret.server

(* C17 as stated: when the payload codec fails on an outer query the       *)
(* server answers NXDOMAIN for a suffix mismatch and FORMERR for a base32  *)
(* decoding error, for fewer than 8 decoded bytes and for a frame that     *)
(* runs past the end of the data.                                          *)
C17_CodecFailureRcodes ==
    \A b \in Answers :
        /\ b.query = OuterFault["suffix"] => WireRcode(b.data) = RcodeNameError
        /\ \A c \in CodecCauses :
              b.query = OuterFault[c] => WireRcode(b.data) = RcodeFormatError

(* C18: every successful outer response has QR=1, AA=1, RCODE=NoError, the *)
(* ID and the question of the outer query and exactly one Answer, a TXT    *)
(* record owned by the question name whose RDATA, read as character-       *)
(* strings and concatenated, is the encrypted response envelope.           *)
C18_TunnelResponseShape ==
    \A b \in Answers :
        WireRcode(b.data) = RcodeNoError =>
            \E r \in {ParseMessage(b.data)}, q \in {ParseMessage(b.query).msg} :
                /\ r.err = ""
                /\ IsResponse(r.msg)
                /\ (r.msg.Flags \div FlagAA) % 2 = 1
                /\ Rcode(r.msg) = RcodeNoError
                /\ r.msg.ID = q.ID
                /\ r.msg.Question = q.Question
                /\ Len(r.msg.Answer) = 1
                /\ r.msg.Answer[1].Type = RRTypeTXT
                /\ r.msg.Answer[1].Name = q.Question[1].Name
                /\ b.envelope # <<>>
                /\ DecodeTXTData(r.msg.Answer[1].Data) = [err |-> "", data |-> b.envelope]

(* a successful outer response whose envelope takes two character-strings  *)
C18_Witness ==
    \E b \in Answers :
        /\ WireRcode(b.data) = RcodeNoError
        /\ Len(b.envelope) > 255
        /\ ParseMessage(b.data).msg.Answer[1].Data[1] = 255

(***************************************************************************)
(* Parallel transport: one call of Transport.Query, one goroutine per      *)
(* configured resolver, the results channel and the per-resolver stats.    *)
(***************************************************************************)
Recursives == {"192.0.2.1:53", "192.0.2.2:53"}

\* the datagram a recursive sends back when it answers this query
AnswerOf(r) == IF r = "192.0.2.1:53" THEN <<1, 43981>> ELSE <<2, 43981>>

NoStats == [Queries |-> 0, Successes |-> 0, Failures |-> 0]

NewTransport == [r \in Recursives |-> NoStats]

updateStats(stats, resolver, success) ==
    IF resolver \notin DOMAIN stats
    THEN stats
    ELSE [stats EXCEPT ![resolver] =
            [Queries |-> @.Queries + 1,
             Successes |-> IF success THEN @.Successes + 1 ELSE @.Successes,
             Failures |-> IF success THEN @.Failures ELSE @.Failures + 1]]

QueryInit ==
    /\ qTask = [r \in Recursives |-> [pc |-> "start", ok |-> FALSE, data |-> <<>>]]
    /\ qAnswer = [r \in Recursives |-> <<>>]
    /\ qDeadline = FALSE
    /\ qCtx = "live"
    /\ qResults = <<>>
    /\ qStats = NewTransport
    /\ qRet = <<>>

Reported(r, ok, data) ==
    qTask' = [qTask EXCEPT ![r] = [pc |-> "report", ok |-> ok, data |-> data]]

\* queryResolver: ResolveUDPAddr, DialUDP or conn.Write fails
QueryResolverError(r) ==
    /\ qTask[r].pc = "start"
    /\ Reported(r, FALSE, <<>>)
    /\ UNCHANGED <<qAnswer, qDeadline, qCtx, qResults, qStats, qRet>>

\* queryResolver: the query is written, conn.Read begins
QueryResolverWrite(r) ==
    /\ qTask[r].pc = "start"
    /\ qTask' = [qTask EXCEPT ![r].pc = "read"]
    /\ UNCHANGED <<qAnswer, qDeadline, qCtx, qResults, qStats, qRet>>

\* the recursive answers the query it received
RecursiveAnswer(r) ==
    /\ qTask[r].pc = "read"
    /\ qAnswer[r] = <<>>
    /\ qAnswer' = [qAnswer EXCEPT ![r] = AnswerOf(r)]
    /\ UNCHANGED <<qTask, qDeadline, qCtx, qResults, qStats, qRet>>

\* queryResolver: conn.Read returns the datagram
QueryResolverRead(r) ==
    /\ qTask[r].pc = "read"
    /\ qAnswer[r] # <<>>
    /\ Reported(r, TRUE, qAnswer[r])
    /\ UNCHANGED <<qAnswer, qDeadline, qCtx, qResults, qStats, qRet>>

\* queryResolver: conn.Read fails (for one, the port is unreachable)
QueryResolverReadError(r) ==
    /\ qTask[r].pc = "read"
    /\ Reported(r, FALSE, <<>>)
    /\ UNCHANGED <<qAnswer, qDeadline, qCtx, qResults, qStats, qRet>>

\* the deadline of context.WithTimeout passes
DeadlinePasses ==
    /\ ~qDeadline
    /\ qDeadline' = TRUE
    /\ UNCHANGED <<qTask, qAnswer, qCtx, qResults, qStats, qRet>>

\* the context's timer fires: ctx.Done() is closed
ContextTimer ==
    /\ qDeadline
    /\ qCtx = "live"
    /\ qCtx' = "done"
    /\ UNCHANGED <<qTask, qAnswer, qDeadline, qResults, qStats, qRet>>

\* a read on a socket that was given no deadline
QueryResolverNoDeadline(r) ==
    /\ qTask[r].pc = "read"
    /\ qDeadline
    /\ qTask[r].pc = "report"
    /\ UNCHANGED <<qTask, qAnswer, qDeadline, qCtx, qResults, qStats, qRet>>

\* queryResolver: conn.Read fails with the deadline set by conn.SetDeadline
QueryResolverTimeout(r) ==
    /\ qTask[r].pc = "read"
    /\ qDeadline
    /\ Reported(r, FALSE, <<>>)
    /\ UNCHANGED <<qAnswer, qDeadline, qCtx, qResults, qStats, qRet>>

\* the goroutine's select: the send on the buffered channel is always      
\* ready; once ctx.Done() is closed both cases are ready and either runs
ReportSend(r) ==
    /\ qTask[r].pc = "report"
    /\ Len(qResults) < Cardinality(Recursives)
    /\ qResults' = Append(qResults, [resolver |-> r, ok |-> qTask[r].ok,
                                     data |-> qTask[r].data])
    /\ qTask' = [qTask EXCEPT ![r].pc = "done"]
    /\ UNCHANGED <<qAnswer, qDeadline, qCtx, qStats, qRet>>

ReportDrop(r) ==
    /\ qTask[r].pc = "report"
    /\ qCtx = "done"
    /\ qTask' = [qTask EXCEPT ![r].pc = "done"]
    /\ UNCHANGED <<qAnswer, qDeadline, qCtx, qResults, qStats, qRet>>

\* Query: one turn of the loop over the results channel
QueryReceive ==
    /\ qRet = <<>>
    /\ qResults # <<>>
    /\ qStats' = updateStats(qStats, Head(qResults).resolver, Head(qResults).ok)
    /\ qResults' = Tail(qResults)
    /\ IF Head(qResults).ok
       THEN /\ qCtx' = "done"
            /\ qRet' = [err |-> FALSE, data |-> Head(qResults).data]
       ELSE UNCHANGED <<qCtx, qRet>>
    /\ UNCHANGED <<qTask, qAnswer, qDeadline>>

\* Query: wg.Wait() returned, the channel is closed and drained
QueryAllFailed ==
    /\ qRet = <<>>
    /\ qResults = <<>>
    /\ \A r \in Recursives : qTask[r].pc = "done"
    /\ qRet' = [err |-> TRUE, data |-> <<>>]
    /\ qCtx' = "done"
    /\ UNCHANGED <<qTask, qAnswer, qDeadline, qResults, qStats>>

QueryOthers == <<codecVars, wireVars, now, cipherVars, replayVars, rateVars, tunnelVars, poolVars, lateVars>>

QueryNext ==
    \/ \E r \in Recursives : QueryResolverError(r) /\ UNCHANGED QueryOthers
    \/ \E r \in Recursives : QueryResolverWrite(r) /\ UNCHANGED QueryOthers
    \/ \E r \in Recursives : RecursiveAnswer(r) /\ UNCHANGED QueryOthers
    \/ \E r \in Recursives : QueryResolverRead(r) /\ UNCHANGED QueryOthers
    \/ \E r \in Recursives : QueryResolverReadError(r) /\ UNCHANGED QueryOthers
    \/ \E r \in Recursives : QueryResolverTimeout(r) /\ UNCHANGED QueryOthers
    \/ DeadlinePasses /\ UNCHANGED QueryOthers
    \/ ContextTimer /\ UNCHANGED QueryOthers
    \/ \E r \in Recursives : ReportSend(r) /\ UNCHANGED QueryOthers
    \/ \E r \in Recursives : ReportDrop(r) /\ UNCHANGED QueryOthers
    \/ QueryReceive /\ UNCHANGED QueryOthers
    \/ QueryAllFailed /\ UNCHANGED QueryOthers

QueryStart ==
    /\ QueryInit
    /\ CodecIdle
    /\ WireIdle
    /\ ClockIdle
    /\ CipherIdle
    /\ ReplayIdle
    /\ RateIdle
    /\ TunnelIdle
    /\ PoolIdle
    /\ LateIdle

SpecQuery == QueryStart /\ [][QueryNext]_vars

(* C12: the bytes Query returns are bytes one of the configured recursives *)
(* sent in answer to this query; and when Query returns an error, every    *)
(* recursive having failed, exactly one failure is recorded in the stats   *)
(* of each resolver.                                                       *)
C12_AnswerOrOneFailureEach ==
    qRet # <<>> =>
        IF qRet.err
        THEN \A r \in Recursives :
                qStats[r] = [Queries |-> 1, Successes |-> 0, Failures |-> 1]
        ELSE \E r \in Recursives : qAnswer[r] # <<>> /\ qRet.data = qAnswer[r]

(***************************************************************************)
(* Listener: the accept loop, its worker goroutines, the semaphore, the    *)
(* WaitGroup and Stop. The client Resolver and the server Handler have the *)
(* same loop; the server's also drops the datagrams its rate limiter       *)
(* refuses.                                                                *)
(***************************************************************************)
MaxConcurrent == 2

MaxDatagrams == 4

Workers == 1..MaxDatagrams

SlotFreeAlways(sem) == TRUE

\* the send r.sem <- struct{}{} can proceed
SlotFree(sem) == sem < MaxConcurrent

WaitReturnsEarly(wg) == wg <= 1

\* wg.Wait() returns
WaitReturns(wg) == wg = 0

\* the worker goroutines that have not returned
Alive == {w \in Workers : pWork[w] \in {"handle", "release", "exit"}}

\* the worker tasks at work: handleQuery running or just returned, the
\* deferred slot release still to come
Running == {w \in Workers : pWork[w] \in {"handle", "release"}}

PoolInit ==
    /\ pRole \in Roles
    /\ pCtx = "live"
    /\ pConn = "open"
    /\ pLoop = "check"
    /\ pRead = 0
    /\ pSem = 0
    /\ pWg = 1
    /\ pWork = [w \in Workers |-> "idle"]
    /\ pStop = "no"
    /\ pAtClose = {}

LoopReturnKeepsLooping ==
    /\ pLoop' = "check"
    /\ pWg' = pWg - 1

\* acceptLoop returns: the deferred wg.Done()
LoopReturn ==
    /\ pLoop' = "done"
    /\ pWg' = pWg - 1

\* acceptLoop: select on ctx.Done() at the top of the loop
LoopCheck ==
    /\ pLoop = "check"
    /\ IF pCtx = "done"
       THEN LoopReturn
       ELSE pLoop' = "read" /\ pWg' = pWg
    /\ UNCHANGED <<pRole, pCtx, pConn, pRead, pSem, pWork, pStop, pAtClose>>

\* acceptLoop: ReadFromUDP returns a datagram
LoopRead ==
    /\ pLoop = "read"
    /\ pConn = "open"
    /\ pRead < MaxDatagrams
    /\ pRead' = pRead + 1
    /\ pLoop' = "acquire"
    /\ UNCHANGED <<pRole, pCtx, pConn, pSem, pWg, pWork, pStop, pAtClose>>

\* server acceptLoop: CheckRateLimit refuses the datagram
LoopRateLimited ==
    /\ pRole = "server"
    /\ pLoop = "read"
    /\ pConn = "open"
    /\ pRead < MaxDatagrams
    /\ pRead' = pRead + 1
    /\ pLoop' = "check"
    /\ UNCHANGED <<pRole, pCtx, pConn, pSem, pWg, pWork, pStop, pAtClose>>

\* acceptLoop: ReadFromUDP fails: a read timeout, or the socket is closed
LoopReadError ==
    /\ pLoop = "read"
    /\ IF pConn = "closed" /\ pCtx = "done"
       THEN LoopReturn
       ELSE pLoop' = "check" /\ pWg' = pWg
    /\ UNCHANGED <<pRole, pCtx, pConn, pRead, pSem, pWork, pStop, pAtClose>>

\* acceptLoop: select, case r.sem <- struct{}{}
LoopAcquire ==
    /\ pLoop = "acquire"
    /\ SlotFree(pSem)
    /\ pSem' = pSem + 1
    /\ pLoop' = "spawn"
    /\ UNCHANGED <<pRole, pCtx, pConn, pRead, pWg, pWork, pStop, pAtClose>>

\* acceptLoop: select, case <-r.ctx.Done()
LoopGiveUp ==
    /\ pLoop = "acquire"
    /\ pCtx = "done"
    /\ LoopReturn
    /\ UNCHANGED <<pRole, pCtx, pConn, pRead, pSem, pWork, pStop, pAtClose>>

\* acceptLoop: r.wg.Add(1); go func() {...}
LoopSpawn ==
    /\ pLoop = "spawn"
    /\ pWg' = pWg + 1
    /\ pWork' = [pWork EXCEPT ![pRead] = "handle"]
    /\ pLoop' = "check"
    /\ UNCHANGED <<pRole, pCtx, pConn, pRead, pSem, pStop, pAtClose>>

\* worker: handleQuery returns, on whichever path
WorkerReturn(w) ==
    /\ pWork[w] = "handle"
    /\ pWork' = [pWork EXCEPT ![w] = "release"]
    /\ UNCHANGED <<pRole, pCtx, pConn, pLoop, pRead, pSem, pWg, pStop, pAtClose>>

\* worker: the deferred func() { <-r.sem }()
WorkerRelease(w) ==
    /\ pWork[w] = "release"
    /\ pSem' = pSem - 1
    /\ pWork' = [pWork EXCEPT ![w] = "exit"]
    /\ UNCHANGED <<pRole, pCtx, pConn, pLoop, pRead, pWg, pStop, pAtClose>>

\* a worker that returns without telling the WaitGroup
WorkerExitsUncounted(w) ==
    /\ pWork[w] = "exit"
    /\ pWg' = pWg
    /\ pWork' = [pWork EXCEPT ![w] = "done"]
    /\ UNCHANGED <<pRole, pCtx, pConn, pLoop, pRead, pSem, pStop, pAtClose>>

\* worker: the deferred r.wg.Done()
WorkerDone(w) ==
    /\ pWork[w] = "exit"
    /\ pWg' = pWg - 1
    /\ pWork' = [pWork EXCEPT ![w] = "done"]
    /\ UNCHANGED <<pRole, pCtx, pConn, pLoop, pRead, pSem, pStop, pAtClose>>

\* Stop: r.cancel()
StopCancel ==
    /\ pStop = "no"
    /\ pCtx' = "done"
    /\ pStop' = "cancelled"
    /\ UNCHANGED <<pRole, pConn, pLoop, pRead, pSem, pWg, pWork, pAtClose>>

\* Stop: r.conn.Close()
StopClose ==
    /\ pStop = "cancelled"
    /\ pConn' = "closed"
    /\ pStop' = "closed"
    /\ pAtClose' = Alive
    /\ UNCHANGED <<pRole, pCtx, pLoop, pRead, pSem, pWg, pWork>>

\* Stop: r.wg.Wait()
StopWait ==
    /\ pStop = "closed"
    /\ WaitReturns(pWg)
    /\ pStop' = "returned"
    /\ UNCHANGED <<pRole, pCtx, pConn, pLoop, pRead, pSem, pWg, pWork, pAtClose>>

PoolOthers == <<codecVars, wireVars, now, cipherVars, replayVars, rateVars, tunnelVars, queryVars, lateVars>>

PoolNext ==
    \/ LoopCheck /\ UNCHANGED PoolOthers
    \/ LoopRead /\ UNCHANGED PoolOthers
    \/ LoopRateLimited /\ UNCHANGED PoolOthers
    \/ LoopReadError /\ UNCHANGED PoolOthers
    \/ LoopAcquire /\ UNCHANGED PoolOthers
    \/ LoopGiveUp /\ UNCHANGED PoolOthers
    \/ LoopSpawn /\ UNCHANGED PoolOthers
    \/ \E w \in Workers : WorkerReturn(w) /\ UNCHANGED PoolOthers
    \/ \E w \in Workers : WorkerRelease(w) /\ UNCHANGED PoolOthers
    \/ \E w \in Workers : WorkerDone(w) /\ UNCHANGED PoolOthers
    \/ StopCancel /\ UNCHANGED PoolOthers
    \/ StopClose /\ UNCHANGED PoolOthers
    \/ StopWait /\ UNCHANGED PoolOthers

PoolStart ==
    /\ PoolInit
    /\ CodecIdle
    /\ WireIdle
    /\ ClockIdle
    /\ CipherIdle
    /\ ReplayIdle
    /\ RateIdle
    /\ TunnelIdle
    /\ QueryIdle
    /\ LateIdle

SpecPool == PoolStart /\ [][PoolNext]_vars

(* C19: at every moment at most MaxConcurrent worker tasks are at work,    *)
(* for the client listener and for the server handler alike, and the slots *)
(* taken are exactly one per worker at work plus the one the accept loop   *)
(* holds between acquiring it and starting the worker: a worker starts     *)
(* only on an acquired slot and gives back exactly one.                    *)
C19_WorkersWithinSlots ==
    /\ Cardinality(Running) <= MaxConcurrent
    /\ pSem = Cardinality(Running) + (IF pLoop = "spawn" THEN 1 ELSE 0)
    /\ pSem <= MaxConcurrent

(* all slots are taken by workers and the accept loop waits for one with   *)
(* a further datagram in hand                                              *)
C19_Witness ==
    /\ Cardinality(Running) = MaxConcurrent
    /\ pLoop = "acquire"
    /\ pCtx = "live"
    /\ \E w \in Workers : pWork[w] = "done"

(* C20 as stated: when the client's Stop closes the socket no worker task  *)
(* is still running.                                                       *)
C20_DrainedBeforeClose ==
    pRole = "client" /\ pStop \in {"closed", "returned"} => pAtClose = {}

(* C20: the client's Stop cancels the context, closes the socket and then  *)
(* waits: when Stop returns, no worker task and no accept loop is still    *)
(* running, whatever was running when the socket was closed.               *)
C20_DrainedBeforeReturn ==
    pRole = "client" /\ pStop = "returned" =>
        /\ Alive = {}
        /\ pLoop = "done"
        /\ pConn = "closed"

(* Stop has returned after closing the socket under running workers        *)
C20_Witness ==
    /\ pRole = "client"
    /\ pStop = "returned"
    /\ Cardinality(pAtClose) = MaxConcurrent

(* C21: once the server handler's Stop() has returned, the root context is *)
(* cancelled, the socket is closed, the accept loop has exited and no      *)
(* worker task is running, and from then on no worker is started: a        *)
(* datagram's worker that had not started stays unstarted.                 *)
C21_StoppedServerIsQuiet ==
    /\ [](pRole = "server" /\ pStop = "returned" =>
            /\ pCtx = "done"
            /\ pConn = "closed"
            /\ pLoop = "done"
            /\ Alive = {})
    /\ [][pRole = "server" /\ pStop = "returned" =>
            \A w \in Workers : pWork[w] = "idle" => pWork'[w] = "idle"]_vars

(* the server's Stop has returned after waiting for a worker that was      *)
(* running when it was called, with datagrams left that no worker was      *)
(* started for                                                             *)
C21_Witness ==
    /\ pRole = "server"
    /\ pStop = "returned"
    /\ pAtClose # {}
    /\ \E w \in Workers : pWork[w] = "done"
    /\ \E w \in Workers : pWork[w] = "idle"

(***************************************************************************)
(* TXT character-strings: EncodeTXTData on byte strings around the         *)
(* multiples of 255, DecodeTXTData on the result and on what is left of it *)
(* when its last bytes are lost.                                           *)
(***************************************************************************)
MaxTXTStrings == 2

TXTStringMax == 255

TXTLens == {n \in {k * TXTStringMax + d : k \in 0..MaxTXTStrings, d \in {-1, 0, 1, 2}} : n >= 0}

TXTSeeds == {0, 3, 251}

\* the numbers of bytes lost at the end of an RDATA
TXTCuts == {1, 2, 3, TXTStringMax, TXTStringMax + 1}

TxtInit ==
    /\ xStage = "input"
    /\ xData \in {PayloadOf(n, seed) : n \in TXTLens, seed \in TXTSeeds}
    /\ xEnc = <<>>
    /\ xDec = <<>>

\* EncodeTXTData(xData)
TxtEncode ==
    /\ xStage = "input"
    /\ xEnc' = EncodeTXTData(xData)
    /\ xStage' = "encoded"
    /\ UNCHANGED <<xData, xDec>>

\* the RDATA arrives without its last bytes
TxtCut ==
    /\ xStage = "encoded"
    /\ \E c \in TXTCuts :
        /\ c <= Len(xEnc)
        /\ xEnc' = SubSeq(xEnc, 1, Len(xEnc) - c)
    /\ xStage' = "cut"
    /\ UNCHANGED <<xData, xDec>>

\* DecodeTXTData(xEnc)
TxtDecode ==
    /\ xStage \in {"encoded", "cut"}
    /\ xDec' = DecodeTXTData(xEnc)
    /\ xStage' = IF xStage = "encoded" THEN "decoded" ELSE "cutdecoded"
    /\ UNCHANGED <<xData, xEnc>>

TxtOthers == <<codecVars, wireVars, now, cipherVars, replayVars, rateVars, tunnelVars, queryVars, poolVars, nameVars, dotVars, lastVars>>

TxtNext ==
    \/ TxtEncode /\ UNCHANGED TxtOthers
    \/ TxtCut /\ UNCHANGED TxtOthers
    \/ TxtDecode /\ UNCHANGED TxtOthers

TxtStart ==
    /\ TxtInit
    /\ CodecIdle
    /\ WireIdle
    /\ ClockIdle
    /\ CipherIdle
    /\ ReplayIdle
    /\ RateIdle
    /\ TunnelIdle
    /\ QueryIdle
    /\ PoolIdle
    /\ NameIdle
    /\ DotIdle
    /\ LastIdle

SpecTxt == TxtStart /\ [][TxtNext]_vars

\* a length byte of the RDATA promises more bytes than remain after it
RECURSIVE Overrun(_)
Overrun(buf) ==
    IF buf = <<>> THEN FALSE
    ELSE IF buf[1] > Len(buf) - 1 THEN TRUE
    ELSE Overrun(SubSeq(buf, buf[1] + 2, Len(buf)))

\* the character-strings of an RDATA without overrun, in order
RECURSIVE TXTStrings(_)
TXTStrings(buf) ==
    IF buf = <<>> THEN <<>>
    ELSE <<SubSeq(buf, 2, buf[1] + 1)>> \o TXTStrings(SubSeq(buf, buf[1] + 2, Len(buf)))

(* C22: EncodeTXTData(d) is a sequence of bytes made of (length, bytes)    *)
(* character-strings, each of at most 255 bytes, whose concatenation is d, *)
(* for d empty, shorter than 255 bytes, and of a length that is a multiple *)
(* of 255 or next to one; DecodeTXTData gives d back from it; and          *)
(* DecodeTXTData returns an error on an RDATA in which a length byte       *)
(* promises more bytes than remain.                                        *)
C22_TXTRoundTrip ==
    /\ xStage \in {"encoded", "decoded"} =>
        /\ \A i \in 1..Len(xEnc) : xEnc[i] \in 0..255
        /\ ~Overrun(xEnc)
        /\ \A i \in 1..Len(TXTStrings(xEnc)) : Len(TXTStrings(xEnc)[i]) <= TXTStringMax
        /\ Join(TXTStrings(xEnc)) = xData
    /\ xStage = "decoded" => xDec = [err |-> "", data |-> xData]
    /\ xStage = "cutdecoded" /\ Overrun(xEnc) => xDec.err # ""

(* a byte string of exactly two full character-strings has come back       *)
C22_Witness ==
    /\ xStage = "decoded"
    /\ Len(xData) = 2 * TXTStringMax
    /\ Len(TXTStrings(xEnc)) = 2
    /\ xDec.data = xData

(***************************************************************************)
(* readName taken one loop iteration at a time, on the question name of    *)
(* buffers whose compression pointers form a chain to a name, a cycle, or  *)
(* lead outside the buffer; then ParseMessage on the same buffer.          *)
(***************************************************************************)
MaxPointers == 12

MaxCycle == 3

NameInputs ==
    [kind : {"chain"}, k : 1..MaxPointers, lab : BOOLEAN]
        \cup [kind : {"cycle"}, k : 1..MaxCycle, lab : BOOLEAN]
        \cup [kind : {"beyond", "reserved"}, k : {1}, lab : BOOLEAN]

\* where the question name starts: after the 12-byte header
QuestionAt == Len(U16(0) \o U16(0) \o U16(0) \o U16(0) \o U16(0) \o U16(0))

\* a node is a pointer, after the label "a" when in.lab
NodeSize(in) == IF in.lab THEN 4 ELSE 2

\* the first RDATA byte of the answer: after the question (node, type,
\* class) and the answer's root name, type, class, TTL and RDLENGTH
RDataAt(in) == QuestionAt + NodeSize(in) + 4 + 1 + 2 + 2 + 4 + 2

\* node 1 is the question name, the others lie in the answer's RDATA
NodeAt(in, j) == IF j = 1 THEN QuestionAt ELSE RDataAt(in) + (j - 2) * NodeSize(in)

\* the nodes of the RDATA, and the name "z" a chain ends in
NameRData(in) ==
    Join([i \in 1..(in.k - 1) |->
            (IF in.lab THEN <<1, 97>> ELSE <<>>) \o
            <<192, IF in.kind = "cycle" /\ i + 1 = in.k
                   THEN QuestionAt ELSE NodeAt(in, i + 2)>>])
        \o (IF in.kind = "chain" THEN <<1, 122, 0>> ELSE <<>>)

NameBuffer(in) ==
    U16(4660) \o U16(256) \o U16(1) \o U16(1) \o U16(0) \o U16(0)
        \o (IF in.lab THEN <<1, 97>> ELSE <<>>)
        \o (CASE in.kind = "reserved" -> <<64, 0>>
              [] in.kind = "beyond" -> <<192, 250>>
              [] in.kind = "cycle" /\ in.k = 1 -> <<192, QuestionAt>>
              [] OTHER -> <<192, NodeAt(in, 2)>>)
        \o U16(RRTypeTXT) \o U16(ClassIN)
        \o <<0>> \o U16(RRTypeTXT) \o U16(ClassIN) \o <<0, 0, 0, 60>>
        \o U16(Len(NameRData(in))) \o NameRData(in)

NameInit ==
    /\ nStage = "reading"
    /\ nIn \in NameInputs
    /\ nPos = QuestionAt
    /\ nLabels = <<>>
    /\ nPtrs = 0
    /\ nSeek = -1
    /\ nRet = <<>>
    /\ nParsed = <<>>

TooManyPointersLate(numPointers) == numPointers > compressionPointerLimit + 1

\* numPointers > compressionPointerLimit
TooManyPointers(numPointers) == numPointers > compressionPointerLimit

\* the label type byte of this iteration, -1 at the end of the buffer
LabelType == IF nPos >= Len(NameBuffer(nIn)) THEN -1 ELSE NameBuffer(nIn)[nPos + 1]

\* readName returns
NameReturn(err, name, pos) ==
    /\ nRet' = [err |-> err, name |-> name, pos |-> pos]
    /\ nStage' = "returned"

\* case 0x00, length > 0: a label is read and appended
ReadNameLabel ==
    /\ nStage = "reading"
    /\ LabelType \in 1..63
    /\ IF nPos + 1 + LabelType > Len(NameBuffer(nIn))
       THEN /\ NameReturn("ErrUnexpectedEOF", <<>>, nPos)
            /\ UNCHANGED <<nPos, nLabels>>
       ELSE /\ nLabels' = Append(nLabels, Slice(NameBuffer(nIn), nPos + 2, nPos + 1 + LabelType))
            /\ nPos' = nPos + 1 + LabelType
            /\ UNCHANGED <<nStage, nRet>>
    /\ UNCHANGED <<nIn, nPtrs, nSeek, nParsed>>

\* case 0x00, length 0: the end of the name
ReadNameEnd ==
    /\ nStage = "reading"
    /\ LabelType = 0
    /\ nPos' = IF nSeek >= 0 THEN nSeek ELSE nPos + 1
    /\ NameReturn(NewNameErr(nLabels),
                  IF NewNameErr(nLabels) = "" THEN nLabels ELSE <<>>,
                  IF nSeek >= 0 THEN nSeek ELSE nPos + 1)
    /\ UNCHANGED <<nIn, nLabels, nPtrs, nSeek, nParsed>>

\* case 0xc0: a compression pointer
ReadNamePointer ==
    /\ nStage = "reading"
    /\ LabelType \in 192..255
    /\ IF nPos + 2 > Len(NameBuffer(nIn))
       THEN /\ NameReturn("EOF", <<>>, nPos)
            /\ UNCHANGED <<nPos, nPtrs, nSeek>>
       ELSE /\ nSeek' = IF nPtrs = 0 THEN nPos + 2 ELSE nSeek
            /\ nPtrs' = nPtrs + 1
            /\ IF TooManyPointers(nPtrs + 1)
               THEN /\ NameReturn("ErrTooManyPointers", <<>>, nPos)
                    /\ nPos' = nPos + 2
               ELSE /\ nPos' = (LabelType % 64) * 256 + NameBuffer(nIn)[nPos + 2]
                    /\ UNCHANGED <<nStage, nRet>>
    /\ UNCHANGED <<nIn, nLabels, nParsed>>

\* the label type cannot be read, or is a reserved one
ReadNameFail ==
    /\ nStage = "reading"
    /\ LabelType = -1 \/ LabelType \in 64..191
    /\ NameReturn(IF LabelType = -1 THEN "EOF" ELSE "ErrReservedLabelType", <<>>, nPos)
    /\ UNCHANGED <<nIn, nPos, nLabels, nPtrs, nSeek, nParsed>>

\* ParseMessage on the whole buffer
NameParse ==
    /\ nStage = "returned"
    /\ nParsed' = ParseMessage(NameBuffer(nIn))
    /\ nStage' = "parsed"
    /\ UNCHANGED <<nIn, nPos, nLabels, nPtrs, nSeek, nRet>>

NameOthers == <<codecVars, wireVars, now, cipherVars, replayVars, rateVars, tunnelVars, queryVars, poolVars, txtVars, dotVars, lastVars>>

NameNext ==
    \/ ReadNameLabel /\ UNCHANGED NameOthers
    \/ ReadNameEnd /\ UNCHANGED NameOthers
    \/ ReadNamePointer /\ UNCHANGED NameOthers
    \/ ReadNameFail /\ UNCHANGED NameOthers
    \/ NameParse /\ UNCHANGED NameOthers

NameStart ==
    /\ NameInit
    /\ CodecIdle
    /\ WireIdle
    /\ ClockIdle
    /\ CipherIdle
    /\ ReplayIdle
    /\ RateIdle
    /\ TunnelIdle
    /\ QueryIdle
    /\ PoolIdle
    /\ TxtIdle
    /\ DotIdle
    /\ LastIdle

\* one iteration of readName's loop
ReadNameStep == ReadNameLabel \/ ReadNameEnd \/ ReadNamePointer \/ ReadNameFail

\* ParseMessage has gone on after readName returned
ParseTaken == nStage = "returned" /\ nStage' = "parsed"

\* the goroutine that parses is scheduled: it takes its next step whenever
\* it has one
SpecName ==
    NameStart /\ [][NameNext]_vars /\ WF_nameVars(ReadNameStep) /\ WF_nStage(ParseTaken)

\* the pointers readName has followed: every one it counted, but the one it
\* refused
Followed == IF nRet # <<>> /\ nRet.err = "ErrTooManyPointers" THEN nPtrs - 1 ELSE nPtrs

\* the name a chain of in.k pointers leads to
ChainTarget(in) == (IF in.lab THEN [i \in 1..in.k |-> <<97>>] ELSE <<>>) \o << <<122>> >>

(* C23: reading one name follows at most 10 compression pointers: a chain  *)
(* of up to 10 pointers yields the name it leads to, and readName fails    *)
(* with ErrTooManyPointers at the 11th pointer of a longer chain and of    *)
(* pointers that form a cycle or point at themselves, with or without      *)
(* labels between them; ParseMessage returns that error, or the message    *)
(* with that name; and readName and then ParseMessage always come to an    *)
(* end, with a message or an error.                                        *)
C23_PointerCapEndsParse ==
    /\ [](Followed <= compressionPointerLimit)
    /\ [](nStage \in {"returned", "parsed"} =>
            /\ nIn.kind = "chain" /\ nIn.k <= compressionPointerLimit =>
                    nRet.err = "" /\ nRet.name = ChainTarget(nIn) /\ Followed = nIn.k
            /\ nIn.kind = "cycle" \/ (nIn.kind = "chain" /\ nIn.k > compressionPointerLimit) =>
                    nRet.err = "ErrTooManyPointers" /\ Followed = compressionPointerLimit)
    /\ [](nStage = "parsed" =>
            /\ nParsed.err = nRet.err
            /\ nRet.err = "" => nParsed.msg.Question[1].Name = nRet.name)
    /\ <>(nStage = "parsed")

(* a pointer that points at itself has been refused after 10 rounds        *)
C23_Witness ==
    /\ nStage = "parsed"
    /\ nIn.kind = "cycle"
    /\ nIn.k = 1
    /\ ~nIn.lab
    /\ nPtrs = compressionPointerLimit + 1
    /\ nParsed.err = "ErrTooManyPointers"

(***************************************************************************)
(* The server handler with a DoT upstream: every worker's query reaches    *)
(* Resolver.resolveDoT, which takes a connection from the pool or dials    *)
(* one, writes the query, reads the response and puts the connection back; *)
(* Stop closes the pool between closing the socket and waiting.  A         *)
(* connection is named after the worker that dialled it.  The datagrams    *)
(* are ones the rate limiter admits, and the handler is configured with    *)
(* room for DotConcurrent workers.                                         *)
(***************************************************************************)
\* the number of datagrams that arrive
DotDatagrams == 3

\* Config.MaxConcurrent of this handler
DotConcurrent == 3

\* newConnPool's maxSize
DotPoolMax == 2

\* a get that leaves the connection in the pool
connPoolGetKeeps(conns) == [conn |-> conns[Len(conns)], conns |-> conns]

\* connPool.get on a pool that is not empty: [conn, conns]
connPoolGet(conns) ==
    [conn |-> conns[Len(conns)], conns |-> SubSeq(conns, 1, Len(conns) - 1)]

\* connPool.put: len(p.conns) >= p.maxSize
PoolFull(conns) == Len(conns) >= DotPoolMax

Pooled == {dPool[i] : i \in 1..Len(dPool)}

\* the workers between obtaining a connection and giving it up
Holders == {w \in Workers : dPc[w] \in {"io", "put", "putclose"}}

\* connPool.close has run
PoolShut == pStop \in {"closed", "returned"}

DotInit ==
    /\ pRole = "server"
    /\ PoolInit
    /\ dPc = [w \in Workers |-> "idle"]
    /\ dHeld = [w \in Workers |-> 0]
    /\ dConn = [c \in Workers |-> "none"]
    /\ dPool = <<>>
    /\ dMu = 0
    /\ dFailed = {}
    /\ dLate = {}

\* getDoTConnection: r.dotPool.get(), under the pool's mutex
DotGet(w) ==
    /\ pWork[w] = "handle"
    /\ dPc[w] = "idle"
    /\ dMu = 0
    /\ IF dPool = <<>>
       THEN /\ dPc' = [dPc EXCEPT ![w] = "dial"]
            /\ UNCHANGED <<dHeld, dPool>>
       ELSE /\ dHeld' = [dHeld EXCEPT ![w] = connPoolGet(dPool).conn]
            /\ dPool' = connPoolGet(dPool).conns
            /\ dPc' = [dPc EXCEPT ![w] = "io"]
    /\ UNCHANGED <<dConn, dMu, dFailed, dLate>>

\* getDoTConnection: tls.DialWithDialer succeeds
DotDial(w) ==
    /\ dPc[w] = "dial"
    /\ dConn' = [dConn EXCEPT ![w] = "open"]
    /\ dHeld' = [dHeld EXCEPT ![w] = w]
    /\ dPc' = [dPc EXCEPT ![w] = "io"]
    /\ UNCHANGED <<dPool, dMu, dFailed, dLate>>

\* getDoTConnection: tls.DialWithDialer fails, resolveDoT returns the error
DotDialError(w) ==
    /\ dPc[w] = "dial"
    /\ dPc' = [dPc EXCEPT ![w] = "err"]
    /\ UNCHANGED <<dHeld, dConn, dPool, dMu, dFailed, dLate>>

\* resolveDoT: conn.Write and both io.ReadFull succeed
DotExchange(w) ==
    /\ dPc[w] = "io"
    /\ dPc' = [dPc EXCEPT ![w] = "put"]
    /\ UNCHANGED <<dHeld, dConn, dPool, dMu, dFailed, dLate>>

\* resolveDoT: the write or a read fails (or the response is too large):
\* conn.Close() and the error is returned
DotIOError(w) ==
    /\ dPc[w] = "io"
    /\ dConn' = [dConn EXCEPT ![dHeld[w]] = "closed"]
    /\ dFailed' = dFailed \cup {dHeld[w]}
    /\ dPc' = [dPc EXCEPT ![w] = "err"]
    /\ UNCHANGED <<dHeld, dPool, dMu, dLate>>

\* r.dotPool.put(conn): the mutex is taken; the connection is appended, or,
\* the pool being full, is about to be closed with the mutex held
DotPut(w) ==
    /\ dPc[w] = "put"
    /\ dMu = 0
    /\ IF PoolFull(dPool)
       THEN /\ dMu' = w
            /\ dPc' = [dPc EXCEPT ![w] = "putclose"]
            /\ UNCHANGED <<dHeld, dPool, dLate>>
       ELSE /\ dPool' = Append(dPool, dHeld[w])
            /\ dLate' = IF PoolShut THEN dLate \cup {dHeld[w]} ELSE dLate
            /\ dHeld' = [dHeld EXCEPT ![w] = 0]
            /\ dPc' = [dPc EXCEPT ![w] = "ok"]
            /\ UNCHANGED dMu
    /\ UNCHANGED <<dConn, dFailed>>

\* put on a full pool: conn.Close() returns, then the deferred Unlock
DotPutClose(w) ==
    /\ dPc[w] = "putclose"
    /\ dConn' = [dConn EXCEPT ![dHeld[w]] = "closed"]
    /\ dHeld' = [dHeld EXCEPT ![w] = 0]
    /\ dMu' = 0
    /\ dPc' = [dPc EXCEPT ![w] = "ok"]
    /\ UNCHANGED <<dPool, dFailed, dLate>>

\* acceptLoop: ReadFromUDP returns one of the datagrams
DotLoopRead ==
    /\ pRead < DotDatagrams
    /\ LoopRead

\* acceptLoop: select, case h.sem <- struct{}{}
DotAcquire ==
    /\ pLoop = "acquire"
    /\ pSem < DotConcurrent
    /\ pSem' = pSem + 1
    /\ pLoop' = "spawn"
    /\ UNCHANGED <<pRole, pCtx, pConn, pRead, pWg, pWork, pStop, pAtClose>>

\* handleQuery goes on after Resolve returned (the response, or SERVFAIL)
\* and returns
DotWorkerReturn(w) ==
    /\ dPc[w] \in {"ok", "err"}
    /\ WorkerReturn(w)
    /\ dPc' = [dPc EXCEPT ![w] = "idle"]
    /\ dHeld' = [dHeld EXCEPT ![w] = 0]
    /\ UNCHANGED <<dConn, dPool, dMu, dFailed, dLate>>

\* Stop: h.conn.Close()
DotStopClose ==
    /\ pStop = "cancelled"
    /\ pConn' = "closed"
    /\ pStop' = "socket"
    /\ UNCHANGED <<pRole, pCtx, pLoop, pRead, pSem, pWg, pWork, pAtClose>>
    /\ UNCHANGED dotVars

\* Stop: h.resolver.Close(), connPool.close takes the mutex
DotPoolLock ==
    /\ pStop = "socket"
    /\ dMu = 0
    /\ dMu' = -1
    /\ pStop' = "pool"
    /\ UNCHANGED <<pRole, pCtx, pConn, pLoop, pRead, pSem, pWg, pWork, pAtClose>>
    /\ UNCHANGED <<dPc, dHeld, dConn, dPool, dFailed, dLate>>

\* connPool.close: every pooled connection is closed with the mutex held,
\* p.conns = nil, the deferred Unlock
DotPoolClose ==
    /\ pStop = "pool"
    /\ dConn' = [c \in Workers |-> IF c \in Pooled THEN "closed" ELSE dConn[c]]
    /\ dPool' = <<>>
    /\ dMu' = 0
    /\ pStop' = "closed"
    /\ UNCHANGED <<pRole, pCtx, pConn, pLoop, pRead, pSem, pWg, pWork, pAtClose>>
    /\ UNCHANGED <<dPc, dHeld, dFailed, dLate>>

DotOthers == <<codecVars, wireVars, now, cipherVars, replayVars, rateVars, tunnelVars, queryVars, txtVars, nameVars, lastVars>>

DotNext ==
    \/ LoopCheck /\ UNCHANGED <<DotOthers, dotVars>>
    \/ DotLoopRead /\ UNCHANGED <<DotOthers, dotVars>>
    \/ LoopReadError /\ UNCHANGED <<DotOthers, dotVars>>
    \/ DotAcquire /\ UNCHANGED <<DotOthers, dotVars>>
    \/ LoopGiveUp /\ UNCHANGED <<DotOthers, dotVars>>
    \/ LoopSpawn /\ UNCHANGED <<DotOthers, dotVars>>
    \/ \E w \in Workers : DotGet(w) /\ UNCHANGED <<DotOthers, poolVars>>
    \/ \E w \in Workers : DotDial(w) /\ UNCHANGED <<DotOthers, poolVars>>
    \/ \E w \in Workers : DotDialError(w) /\ UNCHANGED <<DotOthers, poolVars>>
    \/ \E w \in Workers : DotExchange(w) /\ UNCHANGED <<DotOthers, poolVars>>
    \/ \E w \in Workers : DotIOError(w) /\ UNCHANGED <<DotOthers, poolVars>>
    \/ \E w \in Workers : DotPut(w) /\ UNCHANGED <<DotOthers, poolVars>>
    \/ \E w \in Workers : DotPutClose(w) /\ UNCHANGED <<DotOthers, poolVars>>
    \/ \E w \in Workers : DotWorkerReturn(w) /\ UNCHANGED DotOthers
    \/ \E w \in Workers : WorkerRelease(w) /\ UNCHANGED <<DotOthers, dotVars>>
    \/ \E w \in Workers : WorkerDone(w) /\ UNCHANGED <<DotOthers, dotVars>>
    \/ StopCancel /\ UNCHANGED <<DotOthers, dotVars>>
    \/ DotStopClose /\ UNCHANGED DotOthers
    \/ DotPoolLock /\ UNCHANGED DotOthers
    \/ DotPoolClose /\ UNCHANGED DotOthers
    \/ StopWait /\ UNCHANGED <<DotOthers, dotVars>>

DotStart ==
    /\ DotInit
    /\ CodecIdle
    /\ WireIdle
    /\ ClockIdle
    /\ CipherIdle
    /\ ReplayIdle
    /\ RateIdle
    /\ TunnelIdle
    /\ QueryIdle
    /\ TxtIdle
    /\ NameIdle
    /\ LastIdle

SpecDot == DotStart /\ [][DotNext]_vars

(* C26: in every interleaving of the workers and Stop, the pool never      *)
(* holds more than its maximum, holds no connection twice and none that a  *)
(* worker holds, no two workers hold the same connection, and a connection *)
(* on which a write or read failed is closed and not in the pool; a put    *)
(* adds the connection at the end of the pool and a get takes the          *)
(* connection at the end, the one put most recently.                       *)
C26_PoolDiscipline ==
    /\ [](/\ Len(dPool) <= DotPoolMax
          /\ \A i, j \in 1..Len(dPool) : i # j => dPool[i] # dPool[j]
          /\ \A w \in Holders : dHeld[w] \notin Pooled
          /\ \A w1, w2 \in Holders : w1 # w2 => dHeld[w1] # dHeld[w2]
          /\ \A c \in dFailed : dConn[c] = "closed" /\ c \notin Pooled)
    /\ [][\A w \in Workers :
            /\ dPc[w] = "idle" /\ dPc'[w] = "io" =>
                    /\ dPool # <<>>
                    /\ dHeld'[w] = dPool[Len(dPool)]
                    /\ dPool' = SubSeq(dPool, 1, Len(dPool) - 1)
            /\ dPc[w] = "put" /\ dPc'[w] = "ok" /\ dMu = 0 =>
                    dPool' = Append(dPool, dHeld[w])]_vars

(* a worker holds a connection it took from a pool of two, the other is    *)
(* still pooled                                                            *)
C26_Witness ==
    \E w \in Workers :
        /\ dPc[w] = "io"
        /\ dHeld[w] # w
        /\ Len(dPool) = DotPoolMax - 1
        /\ dConn[dHeld[w]] = "open"
        /\ ~PoolShut

(* C27 as stated: once the server handler's Stop() has returned no DoT     *)
(* connection is open, none is in the pool, and none was put into the pool *)
(* after the pool had been closed.                                         *)
C27_NothingLeftOpen ==
    pStop = "returned" =>
        /\ \A c \in Workers : dConn[c] # "open"
        /\ dPool = <<>>
        /\ dLate = {}

(* C28 as stated: a worker whose connection came from the pool and failed  *)
(* does not give up with an error before it has dialled a fresh            *)
(* connection for the same query.                                          *)
C28_StaleRetried ==
    \A w \in Workers :
        dPc[w] = "err" /\ dHeld[w] \notin {0, w} => dConn[w] # "none"

(* C29 as stated, for the DoT pool's mutex: whoever holds it is not in a   *)
(* blocking operation: no worker holds it while it dials, writes, reads or *)
(* closes a connection, and Stop does not hold it while it closes the      *)
(* pooled connections.                                                     *)
C29_NoLockWhileBlocking ==
    /\ \A w \in Workers : dMu = w => dPc[w] \notin {"dial", "io", "putclose"}
    /\ dMu = -1 => pStop # "pool"

(***************************************************************************)
(* Truncation of the outer response (SpecTrunc).                           *)
(***************************************************************************)
\* the TC flag of a datagram
WireTC(data) == (data[3] \div 2) % 2 = 1

\* the outer response handleQuery marshalled for an answer it wrote
MarshalledFor(b, ttlByte) ==
    Marshal(CreateTunnelResponse(ParseMessage(b.query).msg, TunnelDomain, b.envelope,
                                 varyTTL(ConfigResponseTTL, ttlByte)).msg).data

(* C30: every datagram the server writes on the success path is at most    *)
(* MaxUDPSize bytes long; its TC flag is set exactly when the marshalled   *)
(* outer response was longer than MaxUDPSize, and then the datagram is the *)
(* first MaxUDPSize bytes of that response with the TC flag set; otherwise *)
(* it is the marshalled response.                                          *)
C30_TruncatedToMaxUDPSize ==
    \A b \in Answers :
        b.envelope # <<>> =>
            \E full \in {MarshalledFor(b, ttlByte) : ttlByte \in TTLBytes} :
                /\ Len(b.data) <= ConfigMaxUDPSize
                /\ WireTC(b.data) <=> Len(full) > ConfigMaxUDPSize
                /\ IF Len(full) > ConfigMaxUDPSize
                   THEN /\ Len(b.data) = ConfigMaxUDPSize
                        /\ \A i \in 1..ConfigMaxUDPSize :
                              i # 3 => b.data[i] = full[i]
                        /\ b.data[3] = full[3] + 2
                   ELSE b.data = full

(* the server has written a truncated response                             *)
C30_Witness ==
    \E b \in Answers :
        /\ b.envelope # <<>>
        /\ WireRcode(b.data) = RcodeNoError
        /\ WireTC(b.data)
        /\ Len(b.data) = ConfigMaxUDPSize
        /\ Len(b.envelope) > ConfigMaxUDPSize

(***************************************************************************)
(* The listeners, one inbound datagram at a time (SpecReply): the server's *)
(* acceptLoop and handleQuery (rate limiter included) and the client's     *)
(* handleQuery, each taken with everything it writes back to the sender.   *)
(***************************************************************************)
MaxInbound == 2

ReplyLimits == {1, 2}

\* fewer bytes than a header
ShortDatagram == <<1, 2, 3>>

\* a message with QR=1
ResponseDatagram == Marshal(CreateResponse(CreateQuery(NameWA, RRTypeA, 4660))).data

\* what reaches the server's socket
ServerInbound ==
    {OuterQuery(GoodName, FlagRD, EDNSClientSize), OuterFault["suffix"],
     OuterFault["twoquestions"], ShortDatagram, ResponseDatagram}

\* what reaches the client's socket
ClientInbound == AppDatagrams \cup {ShortDatagram, ResponseDatagram}

\* handleQuery returns before it looks at anything but the header's QR bit
DropsAtParse(data) ==
    \E query \in {ParseMessage(data)} : query.err # "" \/ IsResponse(query.msg)

\* a server that answers a datagram the rate limiter denied
serverWritesWhenDenied(data, allowed, t, kind, counter, random, ttlByte) ==
    Only([h \in {handleQuery(data, t, kind, counter, random, ttlByte)} |->
        [writes |-> IF h.reply = <<>> THEN <<>> ELSE <<h.reply>>,
         sealed |-> h.sealed]])

\* the server's acceptLoop from CheckRateLimit on, and handleQuery: the
\* datagrams written to the sender, in order
serverWrites(data, allowed, t, kind, counter, random, ttlByte) ==
    IF ~allowed THEN [writes |-> <<>>, sealed |-> FALSE]
    ELSE Only([h \in {handleQuery(data, t, kind, counter, random, ttlByte)} |->
            [writes |-> IF h.reply = <<>> THEN <<>> ELSE <<h.reply>>,
             sealed |-> h.sealed]])

\* the client's handleQuery: the datagrams written to the application, in
\* order; answer is what the transport returned, <<>> when it failed
clientWrites(data, counter, random, t, queryID, answer) ==
    Only([query \in {ParseMessage(data)} |->
      IF query.err # "" THEN [writes |-> <<>>, sealed |-> FALSE]
      ELSE IF IsResponse(query.msg) THEN [writes |-> <<>>, sealed |-> FALSE]
      ELSE IF Len(query.msg.Question) # 1
      THEN [writes |-> <<clientSendError(query.msg, RcodeFormatError)>>, sealed |-> FALSE]
      ELSE
    Only([snd \in {processTunneledQuerySend(query.msg, counter, random, t, queryID, 0)} |->
      IF snd.err # "" \/ answer = <<>>
      THEN [writes |-> <<clientSendError(query.msg, RcodeServerFail)>>, sealed |-> TRUE]
      ELSE
    Only([r \in {processTunneledQueryReceive(query.msg, answer)} |->
      IF r.err # ""
      THEN [writes |-> <<clientSendError(query.msg, RcodeServerFail)>>, sealed |-> TRUE]
      ELSE
    Only([respData \in {Marshal(r.response)} |->
      [writes |-> IF respData.err # "" THEN <<>> ELSE <<respData.data>>,
       sealed |-> TRUE]])])])])

ReplyInit ==
    /\ now = 0
    /\ kCounter = [r \in Roles |-> 0]
    /\ kEnv = <<>>
    /\ kOpen = <<>>
    /\ kTask = <<>>
    /\ kIssued = <<>>
    /\ kNonces = <<>>
    /\ lLimit \in ReplyLimits
    /\ lCounters = [ip \in IPs |-> NoCounter]
    /\ lCleaned = 0
    /\ lRecent = <<>>
    /\ lLast = <<>>
    /\ tApp = <<>>
    /\ tNet = {}
    /\ tBack = {}
    /\ tLog = {}
    /\ tDups = 0
    /\ tSecret = [client |-> SharedSecret, server |-> SharedSecret]
    /\ vCounters = <<>>
    /\ vLast = <<>>
    /\ yLast = [side |-> "", n |-> 0]

\* the server reads one datagram: CheckRateLimit, then the worker
ServerDatagram ==
    /\ yLast.n < MaxInbound
    /\ \E data \in ServerInbound, ip \in IPs, kind \in {"a", "timeout"} :
       \E allowed \in {Allow(lCounters[ip], now, lLimit)} :
       \E w \in {serverWrites(data, allowed.res, now, kind,
                              AtomicAdd(kCounter["server"]), 0, 121)} :
          /\ lCounters' = [lCounters EXCEPT ![ip] = allowed.counter]
          /\ kCounter' = IF w.sealed
                         THEN [kCounter EXCEPT !["server"] = AtomicAdd(kCounter["server"])]
                         ELSE kCounter
          /\ yLast' = [side |-> "server", n |-> yLast.n + 1, data |-> data,
                       allowed |-> allowed.res, before |-> lCounters[ip],
                       after |-> allowed.counter, writes |-> w.writes]
    /\ UNCHANGED <<now, kEnv, kOpen, kTask, kIssued, kNonces, lLimit, lCleaned, lRecent,
                   lLast, tunnelVars, vCounters, vLast>>

\* the client reads one datagram; the transport brings back the server's
\* answer to the tunnel query, or nothing
ClientDatagram ==
    /\ yLast.n < MaxInbound
    /\ \E data \in ClientInbound, kind \in {"a", "timeout", "lost"} :
       \E counter \in {AtomicAdd(kCounter["client"])} :
       \E snd \in {IF DropsAtParse(data) THEN [err |-> "none", data |-> <<>>]
                    ELSE processTunneledQuerySend(ParseMessage(data).msg, counter, 0,
                                                  now, 43981, 0)} :
       \E answer \in {IF snd.err # "" \/ kind = "lost" THEN <<>>
                       ELSE handleQuery(snd.data, now, kind,
                                        AtomicAdd(kCounter["server"]), 0, 121).reply} :
       \E w \in {clientWrites(data, counter, 0, now, 43981, answer)} :
          /\ kCounter' = IF w.sealed
                         THEN [kCounter EXCEPT !["client"] = counter]
                         ELSE kCounter
          /\ yLast' = [side |-> "client", n |-> yLast.n + 1, data |-> data,
                       allowed |-> TRUE, before |-> NoCounter, after |-> NoCounter,
                       writes |-> w.writes]
    /\ UNCHANGED <<now, kEnv, kOpen, kTask, kIssued, kNonces, rateVars, tunnelVars,
                   vCounters, vLast>>

\* a second passes
ReplyTick ==
    /\ now < MaxRateSeconds * TicksPerSecond
    /\ now' = now + TicksPerSecond
    /\ UNCHANGED <<cipherVars, rateVars, tunnelVars, lastVars>>

ReplyOthers == <<codecVars, wireVars, replayVars, queryVars, poolVars, txtVars, nameVars,
                 dotVars>>

ReplyNext ==
    \/ ServerDatagram /\ UNCHANGED ReplyOthers
    \/ ClientDatagram /\ UNCHANGED ReplyOthers
    \/ ReplyTick /\ UNCHANGED ReplyOthers

ReplyStart ==
    /\ ReplyInit
    /\ CodecIdle
    /\ WireIdle
    /\ ReplayIdle
    /\ QueryIdle
    /\ PoolIdle
    /\ TxtIdle
    /\ NameIdle
    /\ DotIdle

SpecReply == ReplyStart /\ [][ReplyNext]_vars

(* C31 as stated: a datagram that fails to parse or that is a response is  *)
(* dropped before the server consults the rate limiter: it leaves the      *)
(* sender's rate-limit counter as it was.                                  *)
C31_DroppedBeforeRateLimit ==
    yLast.side = "server" /\ DropsAtParse(yLast.data) => yLast.after = yLast.before

(* C39: a listener writes at most one datagram for a datagram it read; the *)
(* server writes none for a datagram the rate limiter denied, that does    *)
(* not parse or that is a response, the client none for a datagram that    *)
(* does not parse or is a response.                                        *)
C39_AtMostOneReply ==
    yLast.side # "" =>
        /\ Len(yLast.writes) <= 1
        /\ yLast.side = "server" /\ ~yLast.allowed => yLast.writes = <<>>
        /\ DropsAtParse(yLast.data) => yLast.writes = <<>>

(* the rate limiter denied a tunnel query the server would have answered,  *)
(* after it had answered one                                               *)
C39_Witness ==
    /\ yLast.side = "server"
    /\ ~yLast.allowed
    /\ yLast.data = OuterQuery(GoodName, FlagRD, EDNSClientSize)
    /\ yLast.writes = <<>>
    /\ kCounter["server"] > 0

(* C32 as stated: when the client's deadline fires before any recursive    *)
(* has answered, the client drops the exchange and writes nothing to the   *)
(* application; when the server's upstream resolution fails at its         *)
(* deadline, the server answers SERVFAIL.                                  *)
C32_DeadlineOutcomes ==
    /\ [][\A e \in Exchanges :
            (/\ tApp[e].stage = "waiting"
             /\ tApp'[e].stage = "done"
             /\ now - tApp[e].since >= ConfigTimeout
             /\ \A d \in tBack : d.sock[1] # e)
                => tApp'[e].reply = <<>>]_vars
    /\ [](\A b \in Answers :
            b.log # <<>> /\ ~b.log.resolved => WireRcode(b.data) = RcodeServerFail)

(***************************************************************************)
(* DecodePayload on arbitrary frame sequences (SpecFrames): a frame buffer *)
(* is drawn, written as a name under the tunnel's suffix the way           *)
(* EncodePayload writes one, and handed to DecodePayload.                  *)
(***************************************************************************)
MaxFrames == 3

\* a frame: padding or data, with the length its header gives
FrameKinds ==
    {[pad |-> TRUE, len |-> 0], [pad |-> TRUE, len |-> 2], [pad |-> TRUE, len |-> 31],
     [pad |-> FALSE, len |-> 0], [pad |-> FALSE, len |-> 1], [pad |-> FALSE, len |-> 3]}

FrameLists == UNION {[1..n -> FrameKinds] : n \in 0..MaxFrames}

\* what follows the last whole frame: nothing, or a header that promises
\* more bytes than remain
FrameTails == {<<>>, <<223, 1, 2>>, <<3, 1, 2>>, <<255>>, <<226, 9>>}

\* the ClientID, or fewer than ClientIDSize bytes
FrameHeads == {0, ClientIDSize - 1, ClientIDSize}

\* the body of the k-th frame
FrameBody(k, f) == [i \in 1..f.len |-> 16 * k + i]

FrameBytes(k, f) ==
    <<(IF f.pad THEN PaddingPrefixBase ELSE 0) + f.len>> \o FrameBody(k, f)

RECURSIVE FrameBuffer(_, _)
FrameBuffer(frames, k) ==
    IF k > Len(frames) THEN <<>>
    ELSE FrameBytes(k, frames[k]) \o FrameBuffer(frames, k + 1)

\* the bodies of the data frames, in order
RECURSIVE DataBodies(_, _)
DataBodies(frames, k) ==
    IF k > Len(frames) THEN <<>>
    ELSE (IF frames[k].pad THEN <<>> ELSE FrameBody(k, frames[k]))
             \o DataBodies(frames, k + 1)

FramesInit ==
    /\ cStage = "input"
    /\ \E head \in FrameHeads :
       \E frames \in (IF head = ClientIDSize THEN FrameLists ELSE {<<>>}) :
       \E tail \in (IF head = ClientIDSize THEN FrameTails ELSE {<<>>}) :
          cIn = [clientID |-> [i \in 1..head |-> 160 + i], frames |-> frames,
                 tail |-> tail]
    /\ cName = <<>>
    /\ cOut = <<>>

\* the name a sender writes for the buffer
FramesName ==
    /\ cStage = "input"
    /\ cStage' = "encoded"
    /\ cName' = [err |-> "",
                 name |-> splitLabels(ToLower(B32Encode(cIn.clientID
                                          \o FrameBuffer(cIn.frames, 1) \o cIn.tail)),
                                      MaxLabelLength) \o DomainTunnel]
    /\ UNCHANGED <<cIn, cOut>>

FramesDecode ==
    /\ cStage = "encoded"
    /\ cStage' = "decoded"
    /\ cOut' = DecodePayload(cName.name, DomainTunnel)
    /\ UNCHANGED <<cIn, cName>>

FramesNext ==
    \/ FramesName /\ UNCHANGED <<wireVars, now, cipherVars, replayVars, rateVars, tunnelVars, extraVars>>
    \/ FramesDecode /\ UNCHANGED <<wireVars, now, cipherVars, replayVars, rateVars, tunnelVars, extraVars>>

FramesStart ==
    /\ FramesInit
    /\ WireIdle
    /\ ClockIdle
    /\ CipherIdle
    /\ ReplayIdle
    /\ RateIdle
    /\ TunnelIdle
    /\ ExtraIdle

SpecFrames == FramesStart /\ [][FramesNext]_vars

(* C33: for every sequence of frames after the 8-byte ClientID,            *)
(* DecodePayload returns the ClientID and the bodies of the data frames    *)
(* concatenated in order, the padding frames skipped; it returns an error  *)
(* and no payload when fewer than 8 bytes were decoded or when a frame's   *)
(* header promises more bytes than remain.                                 *)
C33_FramesDecoded ==
    cStage = "decoded" =>
        IF Len(cIn.clientID) < ClientIDSize \/ cIn.tail # <<>>
        THEN cOut.err # "" /\ cOut.payload = <<>>
        ELSE /\ cOut.err = ""
             /\ cOut.clientID = cIn.clientID
             /\ cOut.payload = DataBodies(cIn.frames, 1)

(* two data frames with a padding frame between them were decoded          *)
C33_Witness ==
    /\ cStage = "decoded"
    /\ cIn.tail = <<>>
    /\ Len(cIn.frames) = 3
    /\ cIn.frames[1] = [pad |-> FALSE, len |-> 3]
    /\ cIn.frames[2] = [pad |-> TRUE, len |-> 31]
    /\ cIn.frames[3] = [pad |-> FALSE, len |-> 1]
    /\ cOut.payload = <<17, 18, 19, 49>>

\* the frame buffer a name carries under a suffix
RawOf(name, domain) == B32Decode(ToUpper(Join(TrimSuffix(name, domain).fore))).data

(* C34: in every name EncodePayload returns the padding frame's header is  *)
(* 0xE0 + p with p in 3..8 for a non-empty payload and in 8..13 for an     *)
(* empty one, so it is at most 0xFF; the data frame's header is the        *)
(* payload's length and is below 0xE0, and nothing follows the data frame  *)
(* (no data frame for an empty payload); a payload of 0xE0 bytes or more   *)
(* is refused with an error.                                               *)
C34_FrameHeaders ==
    cStage \in {"encoded", "decoded"} /\ "payload" \in DOMAIN cIn =>
        IF Len(cIn.payload) >= PaddingPrefixBase
        THEN cName.err # ""
        ELSE cName.err = "" =>
                \E raw \in {RawOf(cName.name, cIn.domain)} :
                \E q \in {raw[ClientIDSize + 1] - PaddingPrefixBase} :
                    /\ raw[ClientIDSize + 1] <= 255
                    /\ IF cIn.payload = <<>>
                       THEN /\ q \in MinPaddingPoll..(MinPaddingPoll + MaxPadding - MinPadding)
                            /\ Len(raw) = ClientIDSize + 1 + q
                       ELSE /\ q \in MinPadding..MaxPadding
                            /\ Len(raw) = ClientIDSize + 1 + q + 1 + Len(cIn.payload)
                            /\ raw[ClientIDSize + 1 + q + 1] = Len(cIn.payload)
                            /\ raw[ClientIDSize + 1 + q + 1] < PaddingPrefixBase

(* a poll was encoded with the longest padding, header 0xED                *)
C34_Witness ==
    /\ cStage = "encoded"
    /\ "payload" \in DOMAIN cIn
    /\ cIn.payload = <<>>
    /\ cName.err = ""
    /\ RawOf(cName.name, cIn.domain)[ClientIDSize + 1] = 237

(***************************************************************************)
(* DecodePayload on names whose letters changed case on the way            *)
(* (SpecFold): EncodePayload writes a name, a resolver rewrites the case   *)
(* of its letters, DecodePayload reads both.                               *)
(***************************************************************************)
FoldLens == {0, 1, 7, 100}

\* which letters change case: all to upper case, every second letter (from
\* the first or from the second), those of the suffix only, those of the
\* payload labels only, none
FoldKinds == {"upper", "odd", "even", "suffix", "prefix", "none"}

ToggleByte(b) ==
    IF b >= 65 /\ b <= 90 THEN b + 32
    ELSE IF b >= 97 /\ b <= 122 THEN b - 32
    ELSE b

\* the name with the case of its letters changed
ChangeCase(name, split, kind) ==
    [k \in 1..Len(name) |->
        [i \in 1..Len(name[k]) |->
            CASE kind = "upper" -> ToUpperByte(name[k][i])
              [] kind = "odd" -> IF i % 2 = 1 THEN ToggleByte(name[k][i]) ELSE name[k][i]
              [] kind = "even" -> IF i % 2 = 0 THEN ToggleByte(name[k][i]) ELSE name[k][i]
              [] kind = "suffix" -> IF k > split THEN ToggleByte(name[k][i]) ELSE name[k][i]
              [] kind = "prefix" -> IF k <= split THEN ToggleByte(name[k][i]) ELSE name[k][i]
              [] OTHER -> name[k][i]]]

FoldInit ==
    /\ cStage = "input"
    /\ \E n \in FoldLens, d \in {DomainRoot, DomainTunnel, DomainMid}, r \in {0, 5},
          v \in CodecVariants, kind \in FoldKinds :
          cIn = [payload |-> PayloadOf(n, v.seed), clientID |-> v.clientID,
                 domain |-> d, randByte |-> r, padFill |-> v.padFill, fold |-> kind]
    /\ cName = <<>>
    /\ cOut = <<>>

\* EncodePayload, then the name as it arrives
FoldEncode ==
    /\ cStage = "input"
    /\ cStage' = "encoded"
    /\ \E e \in {EncodePayload(cIn.payload, cIn.clientID, cIn.domain,
                                cIn.randByte, cIn.padFill)} :
          cName' = [err |-> e.err, name |-> e.name,
                    arrived |-> ChangeCase(e.name, Len(e.name) - Len(cIn.domain),
                                           cIn.fold)]
    /\ UNCHANGED <<cIn, cOut>>

\* DecodePayload on the name as written and on the name as it arrived
FoldDecode ==
    /\ cStage = "encoded"
    /\ cName.err = ""
    /\ cStage' = "decoded"
    /\ cOut' = [written |-> DecodePayload(cName.name, cIn.domain),
                arrived |-> DecodePayload(cName.arrived, cIn.domain)]
    /\ UNCHANGED <<cIn, cName>>

FoldNext ==
    \/ FoldEncode /\ UNCHANGED <<wireVars, now, cipherVars, replayVars, rateVars, tunnelVars, extraVars>>
    \/ FoldDecode /\ UNCHANGED <<wireVars, now, cipherVars, replayVars, rateVars, tunnelVars, extraVars>>

FoldStart ==
    /\ FoldInit
    /\ WireIdle
    /\ ClockIdle
    /\ CipherIdle
    /\ ReplayIdle
    /\ RateIdle
    /\ TunnelIdle
    /\ ExtraIdle

SpecFold == FoldStart /\ [][FoldNext]_vars

(* C35: for every name EncodePayload wrote under a suffix and every name   *)
(* that differs from it only in the case of letters, in the payload labels *)
(* or in the suffix labels, DecodePayload under that suffix returns the    *)
(* same ClientID and payload, those that were encoded.                     *)
C35_CaseInsensitive ==
    cStage = "decoded" /\ "fold" \in DOMAIN cIn =>
        /\ cOut.arrived = cOut.written
        /\ cOut.arrived.err = ""
        /\ cOut.arrived.clientID = cIn.clientID
        /\ cOut.arrived.payload = cIn.payload

(* a name arrived with letters of both its payload labels and its suffix   *)
(* in another case                                                         *)
C35_Witness ==
    /\ cStage = "decoded"
    /\ "fold" \in DOMAIN cIn
    /\ cIn.fold = "odd"
    /\ cIn.domain = DomainTunnel
    /\ Len(cIn.payload) = 100
    /\ cName.arrived[1] # cName.name[1]
    /\ cName.arrived[Len(cName.name)] # cName.name[Len(cName.name)]
    /\ cOut.arrived.payload = cIn.payload

(***************************************************************************)
(* Transport.Query called with a scope that is cancelled already           *)
(* (SpecCancelled): ctx.Done() is closed from the start, while the         *)
(* deadline context.WithTimeout computes, which queryResolver sets on the  *)
(* socket, is still a timeout away.                                        *)
(***************************************************************************)
CancelledInit ==
    /\ qTask = [r \in Recursives |-> [pc |-> "start", ok |-> FALSE, data |-> <<>>]]
    /\ qAnswer = [r \in Recursives |-> <<>>]
    /\ qDeadline = FALSE
    /\ qCtx = "done"
    /\ qResults = <<>>
    /\ qStats = NewTransport
    /\ qRet = <<>>

CancelledNext ==
    \/ \E r \in Recursives : QueryResolverError(r) /\ UNCHANGED QueryOthers
    \/ \E r \in Recursives : QueryResolverWrite(r) /\ UNCHANGED QueryOthers
    \/ \E r \in Recursives : RecursiveAnswer(r) /\ UNCHANGED QueryOthers
    \/ \E r \in Recursives : QueryResolverRead(r) /\ UNCHANGED QueryOthers
    \/ \E r \in Recursives : QueryResolverReadError(r) /\ UNCHANGED QueryOthers
    \/ \E r \in Recursives : QueryResolverTimeout(r) /\ UNCHANGED QueryOthers
    \/ DeadlinePasses /\ UNCHANGED QueryOthers
    \/ \E r \in Recursives : ReportSend(r) /\ UNCHANGED QueryOthers
    \/ \E r \in Recursives : ReportDrop(r) /\ UNCHANGED QueryOthers
    \/ QueryReceive /\ UNCHANGED QueryOthers
    \/ QueryAllFailed /\ UNCHANGED QueryOthers

CancelledStart ==
    /\ CancelledInit
    /\ CodecIdle
    /\ WireIdle
    /\ ClockIdle
    /\ CipherIdle
    /\ ReplayIdle
    /\ RateIdle
    /\ TunnelIdle
    /\ PoolIdle
    /\ LateIdle

SpecCancelled == CancelledStart /\ [][CancelledNext]_vars

(* C36 as stated: Transport.Query called with a scope that is cancelled    *)
(* already returns an error and no response bytes, whatever the recursives *)
(* do.                                                                     *)
C36_CancelledScopeFails ==
    qRet # <<>> => qRet.err /\ qRet.data = <<>>

(***************************************************************************)
(* Transport.Query under fair scheduling (SpecQueryFair): every goroutine  *)
(* that can take a step of its own takes one, time passes and the          *)
(* context's timer fires.  Nothing is assumed of the recursives.           *)
(***************************************************************************)
TaskStep(r) ==
    /\ \/ QueryResolverError(r)
       \/ QueryResolverWrite(r)
       \/ QueryResolverRead(r)
       \/ QueryResolverTimeout(r)
       \/ ReportSend(r)
       \/ ReportDrop(r)
    /\ UNCHANGED QueryOthers

SpecQueryFair ==
    /\ QueryStart
    /\ [][QueryNext]_vars
    /\ \A r \in Recursives : WF_vars(TaskStep(r))
    /\ WF_vars(DeadlinePasses /\ UNCHANGED QueryOthers)
    /\ WF_vars(ContextTimer /\ UNCHANGED QueryOthers)

\* every per-resolver goroutine has returned: wg.Wait() returns and the
\* closing goroutine closes the channel and ends
TasksOver == \A r \in Recursives : qTask[r].pc = "done"

(* C37: once Transport.Query has returned, by a first success or with an   *)
(* error, every per-resolver goroutine ends, and with them the goroutine   *)
(* that closes the channel; a goroutine that has its result always finds   *)
(* room in the channel, whoever is still reading.                          *)
C37_TasksTerminate ==
    /\ [](\A r \in Recursives :
            qTask[r].pc = "report" => Len(qResults) < Cardinality(Recursives))
    /\ (qRet # <<>> ~> TasksOver)

(* Query has returned the winner's bytes while the other recursive's       *)
(* answer, read after that, sits in the channel nobody reads               *)
C37_Witness ==
    /\ qRet # <<>>
    /\ ~qRet.err
    /\ TasksOver
    /\ qResults # <<>>
    /\ Head(qResults).ok

(***************************************************************************)
(* The rate limiter beside a limiter whose cleanup goroutine never runs    *)
(* (SpecSweep): the same calls of Allow, at the same times, are made to    *)
(* both.                                                                   *)
(***************************************************************************)
SweepInit ==
    /\ RateInit
    /\ vCounters = [ip \in IPs |-> NoCounter]
    /\ vLast = <<>>
    /\ yLast = <<>>

SweepTick ==
    /\ RateTick
    /\ UNCHANGED <<vCounters, vLast, yLast>>

\* RateLimiter.Allow(ip), and the same call on the limiter never swept
SweepAllow ==
    /\ RateAllow
    /\ vCounters' = [vCounters EXCEPT ![lLast'.ip] =
                        Allow(vCounters[lLast'.ip], now, lLimit).counter]
    /\ vLast' = [res |-> Allow(vCounters[lLast'.ip], now, lLimit).res,
                 swept |-> ~lCounters[lLast'.ip].ok /\ vCounters[lLast'.ip].ok]
    /\ UNCHANGED yLast

\* cleanup's tick: the limiter never swept has none
SweepCleanup ==
    /\ RateCleanup
    /\ UNCHANGED <<vCounters, vLast, yLast>>

SweepOthers == <<codecVars, wireVars, cipherVars, replayVars, tunnelVars, queryVars,
                 poolVars, txtVars, nameVars, dotVars>>

SweepNext ==
    \/ SweepTick /\ UNCHANGED SweepOthers
    \/ SweepAllow /\ UNCHANGED SweepOthers
    \/ SweepCleanup /\ UNCHANGED SweepOthers

SweepStart ==
    /\ SweepInit
    /\ CodecIdle
    /\ WireIdle
    /\ CipherIdle
    /\ ReplayIdle
    /\ TunnelIdle
    /\ QueryIdle
    /\ PoolIdle
    /\ TxtIdle
    /\ NameIdle
    /\ DotIdle

SpecSweep == SweepStart /\ [][SweepNext]_vars

(* C38: the cleanup goroutine of the rate limiter cannot be observed       *)
(* through Allow: every call returns what the same call returns on a       *)
(* limiter that was given the same calls at the same times and was never   *)
(* swept.                                                                  *)
C38_SweepUnobservable ==
    lLast # <<>> => vLast.res = lLast.res

(* Allow was called for an address whose counter cleanup had deleted, and  *)
(* which the limiter never swept still holds                               *)
C38_Witness ==
    /\ lLast # <<>>
    /\ vLast.swept
    /\ lLast.res
    /\ lCleaned > 0

(***************************************************************************)
(* The listener under fair scheduling (SpecPoolFair): the accept loop, a   *)
(* worker and Stop each take their next step when they can.  A read ends   *)
(* by its one-second deadline and handleQuery's network operations by      *)
(* theirs, so ReadFromUDP and handleQuery return; nothing is assumed of    *)
(* the datagrams that arrive nor of whether Stop is called.                *)
(***************************************************************************)
LoopStep ==
    /\ \/ LoopCheck
       \/ LoopReadError
       \/ LoopAcquire
       \/ LoopGiveUp
       \/ LoopSpawn
    /\ UNCHANGED PoolOthers

WorkerStep(w) ==
    /\ \/ WorkerReturn(w)
       \/ WorkerRelease(w)
       \/ WorkerDone(w)
    /\ UNCHANGED PoolOthers

StopStep ==
    /\ \/ StopClose
       \/ StopWait
    /\ UNCHANGED PoolOthers

SpecPoolFair ==
    /\ PoolStart
    /\ [][PoolNext]_vars
    /\ WF_vars(LoopStep)
    /\ \A w \in Workers : WF_vars(WorkerStep(w))
    /\ WF_vars(StopStep)

(* C40: Stop(), once called on the client listener or on the server        *)
(* handler, eventually returns, with the accept loop gone, whether it was  *)
(* reading or waiting for a slot, every worker returned and every slot     *)
(* given back.                                                             *)
C40_StopReturns ==
    pStop = "cancelled" ~>
        (/\ pStop = "returned"
         /\ pLoop = "done"
         /\ Alive = {}
         /\ pSem = 0)

(* the client's Stop has returned although it was called while every slot  *)
(* was taken and the accept loop waited for one with a datagram in hand:   *)
(* that datagram's worker was never started                                *)
C40_Witness ==
    /\ pRole = "client"
    /\ pStop = "returned"
    /\ Cardinality(pAtClose) = MaxConcurrent
    /\ pRead >= 1
    /\ pWork[pRead] = "idle"
    /\ pSem = 0
====
